---- MODULE Spec2Model ----
(***************************************************************************)
(* Model of the Parkinson prediction backend (backend/routers/             *)
(* predictions.py, backend/model_loader.py, backend/main.py).              *)
(*                                                                         *)
(* Number representation.  The program computes with Python floats; the    *)
(* model uses exact fixed-point integers:                                  *)
(*   - feature values are in units of 1/100000 (0.00005 is 5),             *)
(*   - risk scores are in units of 1/RiskUnit (61.25 is 2450),             *)
(*   - probabilities are in units of 1/(100*RiskUnit) (0.65 is 2600).      *)
(* With these units x/100 maps a risk score to the probability with the    *)
(* same integer, and every value the modelled inputs produce is exact.     *)
(***************************************************************************)
EXTENDS Integers, Sequences, FiniteSets, TLC

VARIABLES
    phase,      \* "imported" (module loaded), "serving" (startup hook done)
    models,     \* predictions.models: model name -> handle
    scaler,     \* predictions.scaler: handle
    req,        \* the request being handled (endpoint "none" when idle)
    lib,        \* what the library calls answer for this request
    calls,      \* the calls the handler made for this request
    resp,       \* the response of the handler (status 0 when none)
    tmp_files   \* the temporary audio files that exist on disk

vars == <<phase, models, scaler, req, lib, calls, resp, tmp_files>>

Min(a, b) == IF a < b THEN a ELSE b

\* Python dict assignment d[k] = v
Put(d, k, v) == [x \in (DOMAIN d) \cup {k} |-> IF x = k THEN v ELSE d[x]]

EmptyDict == [x \in {} |-> 0]

RECURSIVE SumSeq(_)
SumSeq(s) == IF s = <<>> THEN 0 ELSE Head(s) + SumSeq(Tail(s))

Range(s) == {s[i] : i \in DOMAIN s}

(***************************************************************************)
(* Feature Mapper                                                          *)
(***************************************************************************)

EXPECTED_FEATURE_NAMES ==
    << "MDVP:Fo(Hz)", "MDVP:Fhi(Hz)", "MDVP:Flo(Hz)", "MDVP:Jitter(%)",
       "MDVP:Jitter(Abs)", "MDVP:RAP", "MDVP:PPQ", "Jitter:DDP",
       "MDVP:Shimmer", "MDVP:Shimmer(dB)", "Shimmer:APQ3", "Shimmer:APQ5",
       "MDVP:APQ", "Shimmer:DDA", "NHR", "HNR", "RPDE", "DFA",
       "spread1", "spread2", "D2", "PPE" >>

\* the dict FEATURE_MAPPING in insertion order: <<frontend name, model name>>
FEATURE_MAPPING ==
    << <<"mdvpFo", "MDVP:Fo(Hz)">>, <<"mdvpFhi", "MDVP:Fhi(Hz)">>,
       <<"mdvpFlo", "MDVP:Flo(Hz)">>, <<"mdvpJitter", "MDVP:Jitter(%)">>,
       <<"mdvpJitterAbs", "MDVP:Jitter(Abs)">>, <<"mdvpRap", "MDVP:RAP">>,
       <<"mdvpPpq", "MDVP:PPQ">>, <<"jitterDdp", "Jitter:DDP">>,
       <<"mdvpShimmer", "MDVP:Shimmer">>, <<"mdvpShimmerDb", "MDVP:Shimmer(dB)">>,
       <<"shimmerApq3", "Shimmer:APQ3">>, <<"shimmerApq5", "Shimmer:APQ5">>,
       <<"mdvpApq", "MDVP:APQ">>, <<"shimmerDda", "Shimmer:DDA">>,
       <<"nhr", "NHR">>, <<"hnr", "HNR">>, <<"rpde", "RPDE">>, <<"dfa", "DFA">>,
       <<"spread1", "spread1">>, <<"spread2", "spread2">>,
       <<"d2", "D2">>, <<"ppe", "PPE">> >>

\* the dict DEFAULT_VALUES, values in units of 1/100000
DEFAULT_VALUES ==
    [n \in {"MDVP:Jitter(Abs)", "MDVP:RAP", "MDVP:PPQ", "Jitter:DDP",
            "MDVP:Shimmer(dB)", "Shimmer:APQ3", "Shimmer:APQ5", "MDVP:APQ",
            "Shimmer:DDA"} |->
        CASE n = "MDVP:Jitter(Abs)" -> 5
          [] n = "MDVP:RAP"         -> 300
          [] n = "MDVP:PPQ"         -> 300
          [] n = "Jitter:DDP"       -> 900
          [] n = "MDVP:Shimmer(dB)" -> 35000
          [] n = "Shimmer:APQ3"     -> 2000
          [] n = "Shimmer:APQ5"     -> 2500
          [] n = "MDVP:APQ"         -> 3000
          [] n = "Shimmer:DDA"      -> 6000]

\* the fields of the pydantic model CombinedFeatures
CombinedFeatures ==
    {"mdvpFo", "mdvpFhi", "mdvpFlo", "mdvpJitter", "mdvpShimmer", "nhr", "hnr",
     "rpde", "dfa", "spread1", "spread2", "d2", "ppe"}

\* first loop of prepare_model_input: copy the values present under an alias
RECURSIVE MapProvided(_, _, _)
MapProvided(input_features_dict, mapping, model_input_dict) ==
    IF mapping = <<>> THEN model_input_dict
    ELSE LET frontend_feature_name == Head(mapping)[1]
             model_feature_name == Head(mapping)[2]
         IN  MapProvided(input_features_dict, Tail(mapping),
                 IF frontend_feature_name \in DOMAIN input_features_dict
                 THEN Put(model_input_dict, model_feature_name,
                          input_features_dict[frontend_feature_name])
                 ELSE model_input_dict)

\* mutant: a schema name without a registered default is left out
DefaultFor_NoZero(model_input_dict, feature_name) ==
    IF feature_name \in DOMAIN DEFAULT_VALUES
    THEN Put(model_input_dict, feature_name, DEFAULT_VALUES[feature_name])
    ELSE model_input_dict

\* body of the second loop for one missing schema name
DefaultFor(model_input_dict, feature_name) ==
    IF feature_name \in DOMAIN DEFAULT_VALUES
    THEN Put(model_input_dict, feature_name, DEFAULT_VALUES[feature_name])
    ELSE Put(model_input_dict, feature_name, 0)

\* second loop of prepare_model_input: fill every schema name not yet set
RECURSIVE FillMissing(_, _)
FillMissing(names, model_input_dict) ==
    IF names = <<>> THEN model_input_dict
    ELSE FillMissing(Tail(names),
             IF Head(names) \notin DOMAIN model_input_dict
             THEN DefaultFor(model_input_dict, Head(names))
             ELSE model_input_dict)

prepare_model_input(input_features_dict) ==
    FillMissing(EXPECTED_FEATURE_NAMES,
                MapProvided(input_features_dict, FEATURE_MAPPING, EmptyDict))

(***************************************************************************)
(* Risk Fusion Engine                                                      *)
(***************************************************************************)

\* fixed-point unit of risk scores: a risk score r is the integer r*RiskUnit
RiskUnit == 40

\* fixed-point unit of probabilities: p is the integer p*ProbUnit
ProbUnit == 100 * RiskUnit

ClinicalSymptoms(ages) ==
    [tremor: BOOLEAN, rigidity: BOOLEAN, bradykinesia: BOOLEAN,
     posturalInstability: BOOLEAN, voiceChanges: BOOLEAN, handwriting: BOOLEAN,
     age: ages]

\* mutant: the final cap at 100 is missing
CapScore_NoCap(risk_score) == risk_score

\* return min(risk_score, 100.0)
CapScore(risk_score) == Min(risk_score, 100 * RiskUnit)

\* mutant: the age factor falls with age above 40
AgeFactor_Falling(age) == IF age > 40 THEN 40 - Min(age - 40, 40) ELSE 0

\* mutant: the age factor is not clamped at 1.0
AgeFactor_NoClamp(age) == IF age > 40 THEN age - 40 ELSE 0

\* age_factor = min((age - 40) / 40, 1.0) if age > 40 else 0.0, in units of
\* 1/40 (which is 1/RiskUnit)
AgeFactor(age) == IF age > 40 THEN Min(age - 40, 40) ELSE 0

calculate_clinical_risk_from_symptoms(symptoms) ==
    CapScore(
        AgeFactor(symptoms.age) * 15
      + (IF symptoms.tremor THEN 25 * RiskUnit ELSE 0)
      + (IF symptoms.rigidity THEN 20 * RiskUnit ELSE 0)
      + (IF symptoms.bradykinesia THEN 25 * RiskUnit ELSE 0)
      + (IF symptoms.posturalInstability THEN 15 * RiskUnit ELSE 0)
      + (IF symptoms.voiceChanges THEN 10 * RiskUnit ELSE 0)
      + (IF symptoms.handwriting THEN 5 * RiskUnit ELSE 0))

(***************************************************************************)
(* Model Registry                                                          *)
(***************************************************************************)

\* a registry slot holds None, an object read from a file, or the stand-in
\* that safe_load_model fits on random data
NoneH == "None"
Loaded == "loaded"
Dummy == "dummy"

Handles == {NoneH, Loaded, Dummy}

\* Python truthiness of a slot: None is falsy, an estimator object is truthy
Truthy(h) == h # NoneH

\* the keys of the dict predictions.models, in insertion order
ModelOrder ==
    <<"svm", "random_forest", "neural_network", "extra_trees", "ensemble",
      "adaboost">>

ModelNames == Range(ModelOrder)

\* What one slot's files do when initialize_models runs: whether the
\* "_fixed" file and the regular file exist, and the outcome of each load
\* attempt safe_load_model makes on the chosen path.
DiskCase ==
    [fixed_exists: BOOLEAN, regular_exists: BOOLEAN, joblib_ok: BOOLEAN,
     pickle_ok: BOOLEAN, refixed_exists: BOOLEAN, refixed_ok: BOOLEAN]

\* the disk cases the model draws from: files present and readable, no file
\* at all, only an unreadable regular file, readable with pickle only
DiskCases ==
    { [fixed_exists |-> TRUE, regular_exists |-> TRUE, joblib_ok |-> TRUE,
       pickle_ok |-> TRUE, refixed_exists |-> FALSE, refixed_ok |-> FALSE],
      [fixed_exists |-> FALSE, regular_exists |-> FALSE, joblib_ok |-> FALSE,
       pickle_ok |-> FALSE, refixed_exists |-> FALSE, refixed_ok |-> FALSE],
      [fixed_exists |-> FALSE, regular_exists |-> TRUE, joblib_ok |-> FALSE,
       pickle_ok |-> FALSE, refixed_exists |-> FALSE, refixed_ok |-> FALSE] }

\* "random_forest" in model_name.lower() / "scaler" in model_name.lower()
IsRandomForestName(model_name) == model_name = "random_forest"
IsScalerName(model_name) == model_name = "Scaler"

\* safe_load_model(model_path, model_name); path_exists is
\* os.path.exists(model_path), d gives the outcome of each attempt
safe_load_model(path_exists, d, model_name) ==
    IF ~path_exists THEN NoneH
    ELSE IF d.joblib_ok THEN Loaded
    ELSE IF d.pickle_ok THEN Loaded
    ELSE IF d.refixed_exists /\ d.refixed_ok THEN Loaded
    ELSE IF IsRandomForestName(model_name) THEN Dummy
    ELSE IF IsScalerName(model_name) THEN Dummy
    ELSE NoneH

\* initialize_models for one slot: the "_fixed" path if it exists, else the
\* regular path, handed to safe_load_model
LoadSlot(d, model_name) ==
    safe_load_model(d.fixed_exists \/ d.regular_exists, d, model_name)

\* mutant: the result tests the scaler only
ensure_models_loaded_ScalerOnly(sc, ms, scaler_reloads, rf_reloads) ==
    LET sc2 == IF sc = NoneH /\ scaler_reloads THEN Loaded ELSE sc
        ms2 == IF ms["random_forest"] = NoneH /\ rf_reloads
               THEN [ms EXCEPT !["random_forest"] = Loaded] ELSE ms
    IN  [scaler |-> sc2, models |-> ms2, ok |-> sc2 # NoneH]

\* ensure_models_loaded: an empty scaler / random_forest slot is reloaded
\* with joblib.load when its file exists and loads (scaler_reloads,
\* rf_reloads); returns the registry and the function's result
ensure_models_loaded(sc, ms, scaler_reloads, rf_reloads) ==
    LET sc2 == IF sc = NoneH /\ scaler_reloads THEN Loaded ELSE sc
        ms2 == IF ms["random_forest"] = NoneH /\ rf_reloads
               THEN [ms EXCEPT !["random_forest"] = Loaded] ELSE ms
    IN  [scaler |-> sc2, models |-> ms2,
         ok |-> sc2 # NoneH
                /\ (ms2["random_forest"] # NoneH \/ ms2["ensemble"] # NoneH)]

\* the reload outcomes that can matter: a slot that is not empty is not
\* reloaded
ReloadChoices(h) == IF h = NoneH THEN BOOLEAN ELSE {FALSE}

(***************************************************************************)
(* Requests, library answers, responses                                    *)
(***************************************************************************)

NoReq == [endpoint |-> "none"]
NoLib == [kind |-> "none"]
NoResp == [status |-> 0]

Idle == req = NoReq

\* one entry of the log of calls a handler makes: the function, the model
\* it is called on and the number of features handed over
Call(fn, model, width) == [fn |-> fn, model |-> model, width |-> width]

\* module import (predictions.py line 214) has run initialize_models once
Init ==
    /\ phase = "imported"
    /\ \E ds \in [ModelNames \cup {"Scaler"} -> DiskCases] :
         /\ scaler = LoadSlot(ds["Scaler"], "Scaler")
         /\ models = [m \in ModelNames |-> LoadSlot(ds[m], m)]
    /\ req = NoReq
    /\ lib = NoLib
    /\ calls = <<>>
    /\ resp = NoResp
    /\ tmp_files = {}

\* main.lifespan: the startup hook runs initialize_models again
Lifespan ==
    /\ phase = "imported"
    /\ phase' = "serving"
    /\ \E ds \in [ModelNames \cup {"Scaler"} -> DiskCases] :
         /\ scaler' = LoadSlot(ds["Scaler"], "Scaler")
         /\ models' = [m \in ModelNames |-> LoadSlot(ds[m], m)]
    /\ UNCHANGED <<req, lib, calls, resp, tmp_files>>

\* the response has been sent; the handler's locals are gone
Reply ==
    /\ phase = "serving"
    /\ ~Idle
    /\ req' = NoReq
    /\ lib' = NoLib
    /\ calls' = <<>>
    /\ resp' = NoResp
    /\ UNCHANGED <<phase, models, scaler, tmp_files>>

(***************************************************************************)
(* POST /assess_clinical                                                   *)
(***************************************************************************)

\* ages the requests are drawn from: below, at and above the two knees of
\* the age term, and the ages of the documented examples
Ages == {30, 40, 60, 70, 85}

\* values of the submitted features (units of 1/100000)
FeatureValues == {0, 11999}

\* CombinedFeatures payloads: pydantic makes all 13 fields present
FeatureVectors == {[k \in CombinedFeatures |-> v] : v \in FeatureValues}

NoVoice == [present |-> FALSE]

\* the optional field voice_features of ClinicalAssessmentRequest
VoiceOptions ==
    {NoVoice} \cup {[present |-> TRUE, features |-> f] : f \in FeatureVectors}

\* probabilities a classifier answers with (0.2 and 0.65)
ProbaLevels == {ProbUnit \div 5, (13 * ProbUnit) \div 20}

\* "ensemble if models['ensemble'] else random_forest"
SelectedModel(ms) == IF Truthy(ms["ensemble"]) THEN "ensemble" ELSE "random_forest"

\* model_name = "ensemble_voting_classifier" if models['ensemble'] else "random_forest"
SelectedModelName(ms) ==
    IF Truthy(ms["ensemble"]) THEN "ensemble_voting_classifier" ELSE "random_forest"

\* what the selected classifier answers for the submitted voice features;
\* there is an answer only when a scaler and a classifier are loaded
ClassifierAnswers(sc, ms) ==
    IF Truthy(sc) /\ Truthy(ms[SelectedModel(ms)])
    THEN {[kind |-> "classifier", model |-> SelectedModel(ms), raises |-> FALSE,
           prediction |-> (IF 2 * p > ProbUnit THEN 1 ELSE 0), proba |-> p] :
              p \in ProbaLevels}
    ELSE {NoLib}

\* mutant: the stand-in voice probability is 0.5
StubVoiceProbability_Half == ProbUnit \div 2

\* hard-coded in the handler: voice_probability = 0.65
StubVoiceProbability == (13 * ProbUnit) \div 20

\* mutant: the stand-in voice risk is 60.0
StubVoiceRisk_Sixty == 60 * RiskUnit

\* hard-coded in the handler: voice_risk = 65.0
StubVoiceRisk == 65 * RiskUnit

\* mutant: the weights of the combination are swapped
Weighted_Swapped(voice, clinical) == (voice * 4 + clinical * 6) \div 10

\* (voice * 0.6) + (clinical * 0.4)
Weighted(voice, clinical) == (voice * 6 + clinical * 4) \div 10

\* the "Weighted combination" block, used by both voice paths
Combine(voice_probability, voice_risk, clinical_risk, model_used) ==
    LET combined_probability == Weighted(voice_probability, clinical_risk)
        combined_risk == Weighted(voice_risk, clinical_risk)
    IN  [prediction |-> IF 2 * combined_probability > ProbUnit THEN 1 ELSE 0,
         probability |-> combined_probability,
         risk_score |-> combined_risk,
         model_used |-> model_used]

\* mutant: the label is taken with >= 50
ClinicalOnly_Geq(clinical_risk) ==
    [prediction |-> IF clinical_risk >= 50 * RiskUnit THEN 1 ELSE 0,
     probability |-> clinical_risk,
     risk_score |-> clinical_risk,
     model_used |-> "clinical_assessment"]

\* the "Clinical assessment only" block; clinical_risk / 100 is the same
\* integer in probability units
ClinicalOnly(clinical_risk) ==
    [prediction |-> IF clinical_risk > 50 * RiskUnit THEN 1 ELSE 0,
     probability |-> clinical_risk,
     risk_score |-> clinical_risk,
     model_used |-> "clinical_assessment"]

\* the early return taken when voice_features is not None
StubResponse(clinical_symptoms) ==
    LET clinical_risk == calculate_clinical_risk_from_symptoms(clinical_symptoms)
        c == Combine(StubVoiceProbability, StubVoiceRisk, clinical_risk,
                     "ensemble_with_clinical")
    IN  [status |-> 200, prediction |-> c.prediction,
         probability |-> c.probability, risk_score |-> c.risk_score,
         model_used |-> c.model_used, feature_importance |-> "sample",
         has_voice_data |-> TRUE, clinical_risk |-> clinical_risk]

\* the try block "if has_voice_data:" of the handler: the voice features are
\* scaled and classified; any exception is caught and leaves the voice
\* values at 0; model_to_use stays unbound unless the scaler branch bound it
VoiceStage(sc, ms, l) ==
    IF Truthy(sc) /\ l.kind = "classifier" /\ ~l.raises
    THEN [processed |-> TRUE, probability |-> l.proba,
          risk |-> (l.proba * 100 * RiskUnit) \div ProbUnit,
          model_name |-> SelectedModelName(ms), bound |-> TRUE]
    ELSE [processed |-> FALSE, probability |-> 0, risk |-> 0,
          model_name |-> "unbound", bound |-> FALSE]

\* the handler after ensure_models_loaded succeeded
AssessBody(has_voice_data, clinical_symptoms, sc, ms, l) ==
    LET clinical_risk == calculate_clinical_risk_from_symptoms(clinical_symptoms)
        v == IF has_voice_data THEN VoiceStage(sc, ms, l)
             ELSE [processed |-> FALSE, probability |-> 0, risk |-> 0,
                   model_name |-> "unbound", bound |-> TRUE]
        c == IF has_voice_data /\ v.processed /\ v.probability > 0
             THEN Combine(v.probability, v.risk, clinical_risk,
                          v.model_name \o "_with_clinical")
             ELSE ClinicalOnly(clinical_risk)
    IN  IF ~v.bound
        THEN [status |-> 500, detail |-> "Clinical assessment failed"]
        ELSE [status |-> 200, prediction |-> c.prediction,
              probability |-> c.probability, risk_score |-> c.risk_score,
              model_used |-> c.model_used,
              feature_importance |-> IF has_voice_data THEN "model" ELSE "empty",
              has_voice_data |-> has_voice_data /\ v.processed,
              clinical_risk |-> clinical_risk]

AssessClinical ==
    /\ phase = "serving"
    /\ Idle
    /\ \E s \in ClinicalSymptoms(Ages), vf \in VoiceOptions :
         /\ req' = [endpoint |-> "assess_clinical", clinical_symptoms |-> s,
                    voice_features |-> vf]
         /\ IF vf.present
            THEN \* early return: no registry access, no library call
                 /\ \E l \in ClassifierAnswers(scaler, models) : lib' = l
                 /\ calls' = <<>>
                 /\ resp' = StubResponse(s)
                 /\ UNCHANGED <<models, scaler>>
            ELSE \E scaler_reloads \in ReloadChoices(scaler),
                    rf_reloads \in ReloadChoices(models["random_forest"]) :
                   LET e == ensure_models_loaded(scaler, models,
                                                 scaler_reloads, rf_reloads)
                       has_voice_data == vf.present
                   IN  /\ scaler' = e.scaler
                       /\ models' = e.models
                       /\ lib' = NoLib
                       /\ calls' = <<Call("ensure_models_loaded", "-", 0)>>
                       /\ resp' = IF ~e.ok
                                  THEN [status |-> 503,
                                        detail |-> "Required models are not available"]
                                  ELSE AssessBody(has_voice_data, s, e.scaler,
                                                  e.models, NoLib)
    /\ UNCHANGED <<phase, tmp_files>>

(***************************************************************************)
(* POST /predict                                                           *)
(***************************************************************************)

\* what the library answers in /predict: scaler.transform and the
\* classifier may raise; the classifier answers a label and a probability;
\* constituent says whether the search through the selected model's
\* estimators finds a random forest exposing importances
PredictAnswers ==
    {[kind |-> "predict", transform |-> "ValueError", infer |-> "n/a",
      prediction |-> 0, proba |-> 0, constituent |-> FALSE]}
    \cup {[kind |-> "predict", transform |-> "ok", infer |-> e,
           prediction |-> 0, proba |-> 0, constituent |-> FALSE] :
              e \in {"ValueError", "Exception"}}
    \cup {[kind |-> "predict", transform |-> "ok", infer |-> "ok",
           prediction |-> y, proba |-> p, constituent |-> c] :
              y \in {0, 1}, p \in ProbaLevels, c \in BOOLEAN}

\* the except clauses of /predict and /predict_all
StatusOfException(e) ==
    IF e \in {"KeyError", "ValueError"} THEN 400 ELSE 500

\* mutant: 503 as soon as one of the two models is absent
PredictUnavailable_Either(sc, ms) ==
    ~Truthy(sc) \/ ~Truthy(ms["ensemble"]) \/ ~Truthy(ms["random_forest"])

\* the two 503 guards of /predict
PredictUnavailable(sc, ms) ==
    ~Truthy(sc) \/ (~Truthy(ms["ensemble"]) /\ ~Truthy(ms["random_forest"]))

\* where the feature importances of the /predict response come from
ImportanceSource(ms, l) ==
    IF SelectedModel(ms) = "ensemble" /\ l.constituent THEN "constituent"
    ELSE IF Truthy(ms["random_forest"]) THEN "standalone_random_forest"
    ELSE "none"

\* the try block of /predict
PredictBody(features, ms, l) ==
    LET model_input_dict == prepare_model_input(features)
        width == Cardinality(DOMAIN model_input_dict)
        m == SelectedModel(ms)
        c1 == <<Call("prepare_model_input", "-", Cardinality(DOMAIN features)),
                Call("scaler.transform", "scaler", width)>>
        c2 == c1 \o <<Call("predict", m, width)>>
    IN  IF l.transform # "ok"
        THEN [calls |-> c1,
              resp |-> [status |-> StatusOfException(l.transform),
                        detail |-> "Invalid data for prediction"]]
        ELSE IF l.infer # "ok"
        THEN [calls |-> c2,
              resp |-> [status |-> StatusOfException(l.infer),
                        detail |-> "prediction failed"]]
        ELSE [calls |-> c2 \o <<Call("predict_proba", m, width)>>,
              resp |-> [status |-> 200, prediction |-> l.prediction,
                        probability |-> l.proba,
                        model_used |-> SelectedModelName(ms),
                        feature_importance |-> ImportanceSource(ms, l)]]

Predict ==
    /\ phase = "serving"
    /\ Idle
    /\ \E f \in FeatureVectors :
         /\ req' = [endpoint |-> "predict", features |-> f]
         /\ IF PredictUnavailable(scaler, models)
            THEN /\ lib' = NoLib
                 /\ calls' = <<>>
                 /\ resp' = [status |-> 503, detail |-> "not available"]
            ELSE \E l \in PredictAnswers :
                   LET b == PredictBody(f, models, l)
                   IN  /\ lib' = l
                       /\ calls' = b.calls
                       /\ resp' = b.resp
    /\ UNCHANGED <<phase, models, scaler, tmp_files>>

(***************************************************************************)
(* POST /predict_all and POST /api/v1/predict_all                          *)
(***************************************************************************)

NA == [kind |-> "n/a", prediction |-> 0, proba |-> 0]
Raises == [kind |-> "raise", prediction |-> 0, proba |-> 0]

\* answers of one loaded classifier: it raises, or gives a label and a
\* probability
OkOutcomes ==
    {[kind |-> "ok", prediction |-> 0, proba |-> ProbUnit \div 5],
     [kind |-> "ok", prediction |-> 1, proba |-> (13 * ProbUnit) \div 20]}

\* the answers of every loaded model of the registry for one request; an
\* empty slot has no classifier to answer
ModelAnswers(ms) ==
    LET L == {m \in DOMAIN ms : Truthy(ms[m])}
    IN  {[m \in DOMAIN ms |-> IF m \in L THEN g[m] ELSE NA] :
            g \in [L -> {Raises} \cup OkOutcomes]}

MultiAnswers(ms, transforms) ==
    {[kind |-> "multi", transform |-> t, out |-> o] :
        t \in transforms, o \in ModelAnswers(ms)}

\* the loaded models whose inference does not raise
Survivors(ms, l) == {m \in DOMAIN ms : Truthy(ms[m]) /\ l.out[m].kind = "ok"}

\* len(models) == 0
NoModels(ms) == Cardinality(DOMAIN ms) = 0

\* calls made by the loop "for model_name, model in models.items()"
\* calls made on the models of order, one after the other: an empty slot is
\* skipped, a raising model is left after its first call; svm_fn is the call
\* that gives the probability of the svm model
RECURSIVE LoopCalls(_, _, _, _, _)
LoopCalls(order, ms, l, width, svm_fn) ==
    IF order = <<>> THEN <<>>
    ELSE LET m == Head(order)
             rest == LoopCalls(Tail(order), ms, l, width, svm_fn)
         IN  IF ~Truthy(ms[m]) THEN rest
             ELSE IF l.out[m].kind = "raise"
             THEN <<Call("predict", m, width)>> \o rest
             ELSE <<Call("predict", m, width),
                    Call(IF m = "svm" THEN svm_fn ELSE "predict_proba",
                         m, width)>> \o rest

\* the try block of /predict_all (first definition of predict_all_models)
PredictAllBody(features, ms, l) ==
    LET model_input_dict == prepare_model_input(features)
        width == Cardinality(DOMAIN model_input_dict)
        c1 == <<Call("prepare_model_input", "-", Cardinality(DOMAIN features)),
                Call("scaler.transform", "scaler", width)>>
        results == [m \in Survivors(ms, l) |->
                       [prediction |-> l.out[m].prediction,
                        probability |-> l.out[m].proba]]
    IN  IF l.transform # "ok"
        THEN [calls |-> c1,
              resp |-> [status |-> StatusOfException(l.transform),
                        detail |-> "Invalid data for prediction"]]
        ELSE [calls |-> c1 \o LoopCalls(ModelOrder, ms, l, width, "predict_proba"),
              resp |-> [status |-> 200, loaded_models |-> ModelOrder,
                        predictions |-> results]]

PredictAll ==
    /\ phase = "serving"
    /\ Idle
    /\ \E f \in FeatureVectors :
         /\ req' = [endpoint |-> "predict_all", features |-> f]
         /\ IF ~Truthy(scaler)
            THEN /\ lib' = NoLib
                 /\ calls' = <<>>
                 /\ resp' = [status |-> 503, detail |-> "Scaler is not available"]
            ELSE IF NoModels(models)
            THEN /\ lib' = NoLib
                 /\ calls' = <<>>
                 /\ resp' = [status |-> 503, detail |-> "No models are available"]
            ELSE \E l \in MultiAnswers(models, {"ok", "ValueError"}) :
                   LET b == PredictAllBody(f, models, l)
                   IN  /\ lib' = l
                       /\ calls' = b.calls
                       /\ resp' = b.resp
    /\ UNCHANGED <<phase, models, scaler, tmp_files>>

\* the models /api/v1/predict_all looks up in the registry, in order
ApiOrder ==
    <<"random_forest", "svm", "neural_network", "gradient_boosting",
      "adaboost", "extra_trees">>

\* index of the first name of order that is not a key of the registry
\* (models[name] raises KeyError there), 0 when every name is a key
RECURSIVE FirstMissingKey(_, _, _)
FirstMissingKey(order, ms, i) ==
    IF i > Len(order) THEN 0
    ELSE IF order[i] \notin DOMAIN ms THEN i
    ELSE FirstMissingKey(order, ms, i + 1)

\* the dict all_predictions before the ad-hoc ensemble is added, as the
\* sequence of its entries in insertion order
RECURSIVE AllPredictions(_, _, _)
AllPredictions(order, ms, l) ==
    IF order = <<>> THEN <<>>
    ELSE LET m == Head(order)
             rest == AllPredictions(Tail(order), ms, l)
         IN  IF Truthy(ms[m]) /\ l.out[m].kind = "ok"
             THEN <<[name |-> m, prediction |-> l.out[m].prediction,
                     probability |-> l.out[m].proba]>> \o rest
             ELSE rest

\* The block "Calculate ensemble prediction" and "Summary statistics".
\* Fractions are records [num, den]; probabilities are in units of
\* 1/ProbUnit.  The entry all_predictions['ensemble'] is inserted before the
\* summary lists are built, so both lists have n + 1 elements.  The
\* probabilities list is kept multiplied by n to stay integral.
\* probability_var is the square of probability_std (np.std, ddof = 0).
\* np.round rounds the tie 0.5 to 0.  The confidence fields are not modelled.
ApiSummary(ap) ==
    LET n == Len(ap)
        probs == [i \in 1..n |-> ap[i].probability]
        preds == [i \in 1..n |-> ap[i].prediction]
        ensemble_pred == IF 2 * SumSeq(probs) > n * ProbUnit THEN 1 ELSE 0
        predictions_list == preds \o <<ensemble_pred>>
        scaled_list == [i \in 1..n |-> n * probs[i]] \o <<SumSeq(probs)>>
        squares == [i \in 1..(n + 1) |-> scaled_list[i] * scaled_list[i]]
        len == n + 1
    IN  [ensemble |-> [prediction |-> ensemble_pred,
                       probability |-> [num |-> SumSeq(probs), den |-> n]],
         total_models |-> len,
         consensus_prediction |->
             IF 2 * SumSeq(predictions_list) > len THEN 1 ELSE 0,
         average_probability |->
             [num |-> SumSeq(scaled_list), den |-> n * len],
         probability_var |->
             [num |-> len * SumSeq(squares)
                      - SumSeq(scaled_list) * SumSeq(scaled_list),
              den |-> len * len * n * n],
         agreement_ratio |-> [num |-> SumSeq(predictions_list), den |-> len]]

\* the end of /api/v1/predict_all, from "Calculate ensemble prediction" on
ApiAggregate(ap) ==
    IF ap = <<>>
    THEN [status |-> 500, detail |-> "No models available for prediction"]
    ELSE [status |-> 200,
          predictions |-> [i \in 1..Len(ap) |->
                              [name |-> ap[i].name,
                               prediction |-> ap[i].prediction,
                               probability |-> ap[i].probability]],
          summary |-> ApiSummary(ap)]

\* the try block of /api/v1/predict_all (second definition of
\* predict_all_models) after ensure_models_loaded; every exception,
\* HTTPException included, is turned into a 500
ApiBody(features, sc, ms, l) ==
    LET width == Cardinality(DOMAIN features)
        c1 == <<Call("ensure_models_loaded", "-", 0),
                Call("scaler.transform", "scaler", width)>>
        k == FirstMissingKey(ApiOrder, ms, 1)
        looked_up == IF k = 0 THEN ApiOrder ELSE SubSeq(ApiOrder, 1, k - 1)
    IN  IF ~Truthy(sc)
        THEN [calls |-> c1,
              resp |-> [status |-> 500, detail |-> "AttributeError"]]
        ELSE IF l.transform # "ok"
        THEN [calls |-> c1, resp |-> [status |-> 500, detail |-> l.transform]]
        ELSE IF k # 0
        THEN [calls |-> c1 \o LoopCalls(looked_up, ms, l, width,
                                        "decision_function"),
              resp |-> [status |-> 500, detail |-> "KeyError"]]
        ELSE [calls |-> c1 \o LoopCalls(ApiOrder, ms, l, width,
                                        "decision_function"),
              resp |-> ApiAggregate(AllPredictions(ApiOrder, ms, l))]

\* scaler.transform on width features: the stand-in scaler is fitted on 22
\* columns and rejects any other width; a scaler read from a file accepts
\* or rejects
TransformAnswers(sc, width) ==
    IF sc = Dummy /\ width # Len(EXPECTED_FEATURE_NAMES) THEN {"ValueError"}
    ELSE {"ok", "ValueError"}

ApiV1PredictAll ==
    /\ phase = "serving"
    /\ Idle
    /\ \E f \in FeatureVectors,
          scaler_reloads \in ReloadChoices(scaler),
          rf_reloads \in ReloadChoices(models["random_forest"]) :
         LET e == ensure_models_loaded(scaler, models, scaler_reloads, rf_reloads)
         IN  /\ req' = [endpoint |-> "api_v1_predict_all", features |-> f]
             /\ scaler' = e.scaler
             /\ models' = e.models
             /\ IF ~Truthy(e.scaler)
                THEN /\ lib' = NoLib
                     /\ calls' = ApiBody(f, e.scaler, e.models, NoLib).calls
                     /\ resp' = ApiBody(f, e.scaler, e.models, NoLib).resp
                ELSE \E l \in MultiAnswers(e.models,
                                  TransformAnswers(e.scaler, Cardinality(DOMAIN f))) :
                       LET b == ApiBody(f, e.scaler, e.models, l)
                       IN  /\ lib' = l
                           /\ calls' = b.calls
                           /\ resp' = b.resp
    /\ UNCHANGED <<phase, tmp_files>>

(***************************************************************************)
(* GET /models and the availability helpers                                *)
(***************************************************************************)

\* the module-level function get_available_models(): list(models.keys())
get_available_models(ms) ==
    SelectSeq(ModelOrder, LAMBDA m : m \in DOMAIN ms)

\* is_model_available(model_name)
is_model_available(ms, model_name) ==
    model_name \in DOMAIN ms /\ ms[model_name] # NoneH

\* the route handler get_available_models of GET /models
GetModels ==
    /\ phase = "serving"
    /\ Idle
    /\ req' = [endpoint |-> "models"]
    /\ lib' = NoLib
    /\ calls' = <<>>
    /\ resp' = [status |-> 200,
                available_models |->
                    SelectSeq(ModelOrder, LAMBDA m : m \in DOMAIN models),
                feature_names |-> EXPECTED_FEATURE_NAMES,
                scaler |-> "StandardScaler"]
    /\ UNCHANGED <<phase, models, scaler, tmp_files>>

Next ==
    \/ Lifespan
    \/ Predict
    \/ PredictAll
    \/ ApiV1PredictAll
    \/ AssessClinical
    \/ GetModels
    \/ Reply

Spec == Init /\ [][Next]_vars

(***************************************************************************)
(* prepare_model_input as a function of arbitrary input mappings           *)
(***************************************************************************)

\* number of probe keys whose presence is varied
MaxProbe == 5

\* keys whose presence is varied: aliases with and without a registered
\* default, a key that is no alias, and a schema name that is no alias
ProbeKeys ==
    <<"mdvpRap", "mdvpFo", "extra_key", "MDVP:RAP", "ppe", "shimmerDda",
      "spread1", "hnr">>

AllAliases == {FEATURE_MAPPING[i][1] : i \in DOMAIN FEATURE_MAPPING}

\* position of a key in FEATURE_MAPPING, 0 for a key that is no alias
AliasIndex(k) ==
    IF k \in AllAliases
    THEN CHOOSE i \in DOMAIN FEATURE_MAPPING : FEATURE_MAPPING[i][1] = k
    ELSE 0

\* input mappings: nothing, the 13 frontend fields or all 22 aliases, with
\* the presence of each probe key flipped; every key carries its own value
MapperInputs ==
    LET probes == {ProbeKeys[i] : i \in 1..Min(MaxProbe, Len(ProbeKeys))}
    IN  {[k \in (B \ P) \cup (P \ B) |-> seed + AliasIndex(k)] :
            B \in {{}, CombinedFeatures, AllAliases},
            P \in SUBSET probes,
            seed \in {40, 100000}}

FunctionRegistry == [m \in ModelNames |-> NoneH]

InitMapper ==
    /\ phase = "function"
    /\ models = FunctionRegistry
    /\ scaler = NoneH
    /\ \E d \in MapperInputs :
         req = [endpoint |-> "prepare_model_input", input |-> d]
    /\ lib = NoLib
    /\ calls = <<>>
    /\ resp = NoResp
    /\ tmp_files = {}

\* the call prepare_model_input(input); status 1 marks a returned value
ApplyMapper ==
    /\ req.endpoint = "prepare_model_input"
    /\ resp = NoResp
    /\ resp' = [status |-> 1, output |-> prepare_model_input(req.input)]
    /\ UNCHANGED <<phase, models, scaler, req, lib, calls, tmp_files>>

NextMapper == ApplyMapper

SpecMapper == InitMapper /\ [][NextMapper]_vars

(***************************************************************************)
(* The aggregation of /api/v1/predict_all as a function of the surviving   *)
(* models' predictions                                                     *)
(***************************************************************************)

\* number of models whose outcome is varied
MaxModels == 3

\* the models the handler collects predictions from
SummaryOrder ==
    <<"random_forest", "svm", "neural_network", "adaboost", "extra_trees">>

SummaryOutcomes ==
    OkOutcomes \cup {[kind |-> "ok", prediction |-> 1,
                      proba |-> (9 * ProbUnit) \div 10]}

\* all_predictions dicts: each of the first MaxModels models is absent (not
\* loaded, or its inference raised) or present with a label and probability
SummaryInputs ==
    LET names == SubSeq(SummaryOrder, 1, Min(MaxModels, Len(SummaryOrder)))
        ms == [m \in Range(names) |-> Loaded]
    IN  {AllPredictions(names, ms, [out |-> o]) :
            o \in [Range(names) -> {Raises} \cup SummaryOutcomes]}

InitSummary ==
    /\ phase = "function"
    /\ models = FunctionRegistry
    /\ scaler = NoneH
    /\ \E ap \in SummaryInputs :
         req = [endpoint |-> "summary", all_predictions |-> ap]
    /\ lib = NoLib
    /\ calls = <<>>
    /\ resp = NoResp
    /\ tmp_files = {}

\* the handler's code from "Calculate ensemble prediction" to its return
ApplySummary ==
    /\ req.endpoint = "summary"
    /\ resp = NoResp
    /\ resp' = ApiAggregate(req.all_predictions)
    /\ UNCHANGED <<phase, models, scaler, req, lib, calls, tmp_files>>

NextSummary == ApplySummary

SpecSummary == InitSummary /\ [][NextSummary]_vars

(***************************************************************************)
(* Authentication: the dependency get_api_key and the routes of the app    *)
(***************************************************************************)

API_KEY_NAME == "X-API-Key"

\* the default of os.environ.get("API_KEY", ...)
DefaultApiKey ==
    "7edb3e6e6d9f546569a9d6a18eaf716c8b8d037e4770b6d98b940f4c3cd669ce"

\* the values API_KEY takes: the default, or a key set in the environment
ApiKeys == {DefaultApiKey, "key-from-environment"}

\* str.lower() on the header names that occur
LowerHeaderName(n) ==
    CASE n = "X-API-Key" -> "x-api-key"
      [] n = "X-Api-Key" -> "x-api-key"
      [] n = "Authorization" -> "authorization"
      [] OTHER -> n

\* request.headers.get(name): None, or the value of the first header whose
\* name matches without regard to case; headers is a sequence of
\* <<name, value>> pairs
RECURSIVE HeadersGet(_, _)
HeadersGet(headers, name) ==
    IF headers = <<>> THEN [present |-> FALSE]
    ELSE IF LowerHeaderName(Head(headers)[1]) = LowerHeaderName(name)
    THEN [present |-> TRUE, value |-> Head(headers)[2]]
    ELSE HeadersGet(Tail(headers), name)

\* get_api_key accepting every header that is present and not empty
get_api_key_OnlyMissing(headers, API_KEY) ==
    LET api_key_header == HeadersGet(headers, API_KEY_NAME)
    IN  api_key_header.present /\ api_key_header.value # ""

\* get_api_key: TRUE when it returns the key, FALSE when it raises
\* HTTPException(403)
get_api_key(headers, API_KEY) ==
    LET api_key_header == HeadersGet(headers, API_KEY_NAME)
    IN  ~(~api_key_header.present \/ api_key_header.value = ""
          \/ api_key_header.value # API_KEY)

\* dependencies=[...] of the FastAPI application and of the three routers
AppDependencies == <<"get_api_key">>
PredictionsDependencies == <<"get_api_key">>
GeneralDependencies == <<>>
AnalyzeVoiceDependencies == <<"get_api_key">>

Route(method, path, router_dependencies, dependencies, handler) ==
    [method |-> method, path |-> path,
     router_dependencies |-> router_dependencies,
     dependencies |-> dependencies, handler |-> handler]

\* the routes in the order they are registered: the two routes of main.py,
\* then the routers in the order of the include_router calls
Routes ==
    <<Route("GET", "/", <<>>, <<>>, "main.root"),
      Route("GET", "/test", <<>>, <<>>, "main.test"),
      Route("POST", "/api/v1/predict", PredictionsDependencies, <<>>,
            "predict_parkinsons"),
      Route("POST", "/api/v1/predict_all", PredictionsDependencies, <<>>,
            "predict_all_models"),
      Route("GET", "/api/v1/models", PredictionsDependencies, <<>>,
            "get_available_models"),
      Route("POST", "/api/v1/analyze_voice", PredictionsDependencies, <<>>,
            "predictions.analyze_voice_features"),
      Route("POST", "/api/v1/assess_clinical_debug", PredictionsDependencies,
            <<>>, "assess_clinical_symptoms_debug"),
      Route("POST", "/api/v1/assess_clinical", PredictionsDependencies, <<>>,
            "assess_clinical_symptoms"),
      Route("POST", "/api/v1/api/v1/predict_all", PredictionsDependencies,
            <<>>, "predict_all_models_v1"),
      Route("GET", "/api/v1/", GeneralDependencies, <<"get_api_key">>,
            "general.root"),
      Route("GET", "/api/v1/health", GeneralDependencies, <<"get_api_key">>,
            "health_check"),
      Route("GET", "/api/v1/educational_resources", GeneralDependencies,
            <<"get_api_key">>, "get_educational_resources"),
      Route("POST", "/api/v1/analyze_voice", AnalyzeVoiceDependencies, <<>>,
            "analyze_voice.analyze_voice_features")>>

\* the route a request is dispatched to: the first registered route with
\* the request's method and path
MatchRoute(method, path) ==
    LET hits == {i \in DOMAIN Routes :
                    Routes[i].method = method /\ Routes[i].path = path}
    IN  Routes[CHOOSE i \in hits : \A j \in hits : i <= j]

\* the dependencies FastAPI solves before it calls the handler of a route:
\* those of the application, then those of the router, then those of the
\* route decorator
RouteDependencies(route) ==
    AppDependencies \o route.router_dependencies \o route.dependencies

\* Solving the dependencies in order.  The result of a dependency is cached
\* for the request, so get_api_key is called once; the first dependency
\* that raises ends the request.
RECURSIVE SolveDependencies(_, _, _, _)
SolveDependencies(deps, headers, API_KEY, solved) ==
    IF deps = <<>> THEN [ok |-> TRUE, calls |-> <<>>]
    ELSE IF Head(deps) \in solved
    THEN SolveDependencies(Tail(deps), headers, API_KEY, solved)
    ELSE IF ~get_api_key(headers, API_KEY)
    THEN [ok |-> FALSE, calls |-> <<Call(Head(deps), "-", 0)>>]
    ELSE LET rest == SolveDependencies(Tail(deps), headers, API_KEY,
                                       solved \cup {Head(deps)})
         IN  [ok |-> rest.ok,
              calls |-> <<Call(Head(deps), "-", 0)>> \o rest.calls]

\* What the body of a handler answers.  The bodies of the five plain routes
\* are their return statements (timestamps left out); the other handlers are
\* the actions of Spec and SpecVoice, and only the status they end with is
\* kept here.
BodyResponses(handler) ==
    CASE handler = "main.root" ->
           {[status |-> 200,
             body |-> [message |-> "Welcome to the Parkinson's Disease Prediction API. Please use /api/v1 endpoints.",
                       status |-> "healthy"]]}
      [] handler = "main.test" ->
           {[status |-> 200,
             body |-> [message |-> "API test endpoint is working",
                       status |-> "healthy"]]}
      [] handler = "general.root" ->
           {[status |-> 200,
             body |-> [message |-> "Welcome to the Parkinson's Disease Prediction API"]]}
      [] handler = "health_check" ->
           {[status |-> 200,
             body |-> [status |-> "healthy",
                       message |-> "API is operational. Model status check needs context."]]}
      [] handler = "get_educational_resources" ->
           {[status |-> 200, body |-> [resources |-> "resources"]]}
      [] handler = "get_available_models" -> {[status |-> 200]}
      [] handler = "predict_parkinsons" ->
           {[status |-> st] : st \in {200, 400, 500, 503}}
      [] handler = "predict_all_models" ->
           {[status |-> st] : st \in {200, 400, 500, 503}}
      [] handler = "predict_all_models_v1" ->
           {[status |-> st] : st \in {200, 500}}
      [] handler = "assess_clinical_symptoms" ->
           {[status |-> st] : st \in {200, 500, 503}}
      [] handler = "assess_clinical_symptoms_debug" ->
           {[status |-> st] : st \in {200, 500}}
      [] OTHER -> {[status |-> st] : st \in {200, 422, 500}}

\* the headers a request carries: no key, an empty key, a wrong key, the
\* configured key, the key under another spelling of the header name, the
\* key under another header
RequestHeaders(API_KEY) ==
    { <<>>,
      << <<"X-API-Key", "">> >>,
      << <<"X-API-Key", "not-the-key">> >>,
      << <<"X-API-Key", API_KEY>> >>,
      << <<"X-Api-Key", API_KEY>> >>,
      << <<"Authorization", API_KEY>> >>,
      << <<"Authorization", "Bearer t">>, <<"X-API-Key", API_KEY>> >> }

InitAuth ==
    /\ phase = "function"
    /\ models = FunctionRegistry
    /\ scaler = NoneH
    /\ \E k \in ApiKeys, i \in DOMAIN Routes :
         /\ lib = [kind |-> "environment", API_KEY |-> k]
         /\ \E h \in RequestHeaders(k) :
              req = [endpoint |-> "http", method |-> Routes[i].method,
                     path |-> Routes[i].path, headers |-> h]
    /\ calls = <<>>
    /\ resp = NoResp
    /\ tmp_files = {}

\* one request through the application: the dependencies are solved, and
\* only when none of them raised is the handler called
Dispatch ==
    /\ req.endpoint = "http"
    /\ resp = NoResp
    /\ LET route == MatchRoute(req.method, req.path)
           auth == SolveDependencies(RouteDependencies(route), req.headers,
                                     lib.API_KEY, {})
       IN  IF ~auth.ok
           THEN /\ calls' = auth.calls
                /\ resp' = [status |-> 403,
                            detail |-> "Invalid or missing API Key"]
           ELSE \E r \in BodyResponses(route.handler) :
                  /\ calls' = auth.calls \o <<Call("endpoint", route.handler, 0)>>
                  /\ resp' = r
    /\ UNCHANGED <<phase, models, scaler, req, lib, tmp_files>>

NextAuth == Dispatch

SpecAuth == InitAuth /\ [][NextAuth]_vars

(***************************************************************************)
(* Voice feature extraction: voice_analyzer.extract_voice_features_safely  *)
(* and predictions.extract_voice_features.  Feature values are in units of *)
(* 1/100000; signal powers are in units of 1e-6.                           *)
(***************************************************************************)

\* float('nan'): every comparison with it is false
NaN == -2000000000

\* Python max(a, b) and min(a, b): the first argument is kept unless the
\* second compares greater (smaller)
PyMax(a, b) == IF a # NaN /\ b # NaN /\ b > a THEN b ELSE a
PyMin(a, b) == IF a # NaN /\ b # NaN /\ b < a THEN b ELSE a

\* min(max(x, lo), hi) without the upper limit
Clamp_NoUpper(x, lo, hi) == PyMax(x, lo)

\* min(max(x, lo), hi)
Clamp(x, lo, hi) == PyMin(PyMax(x, lo), hi)

\* the dict of fallback values extract_voice_features_safely starts from
VoiceDefaults ==
    [mdvpFo |-> 15423000, mdvpFhi |-> 19735000, mdvpFlo |-> 11682000,
     mdvpJitter |-> 620, mdvpShimmer |-> 3760, nhr |-> 2200, hnr |-> 2160000,
     rpde |-> 49800, dfa |-> 71800, spread1 |-> -620000, spread2 |-> 22600,
     d2 |-> 238100, ppe |-> 20600]

\* largest number of valid pitch frames drawn
MaxFrames == 6

\* pitch tracks with n valid frames: a constant pitch of 126 Hz, and a pitch
\* alternating between 210 Hz and 126 Hz
FramesOf(n) ==
    {[i \in 1..n |-> 12600000],
     [i \in 1..n |-> IF i % 2 = 1 THEN 21000000 ELSE 12600000]}

\* librosa.pyin followed by the selection of the valid frames: it raises, or
\* gives the valid frames
PitchAnswers ==
    {[kind |-> "raise", f0_valid |-> <<>>]}
    \cup {[kind |-> "ok", f0_valid |-> f] :
             f \in UNION {FramesOf(n) : n \in 0..MaxFrames}}

\* np.sum(y_harmonic**2) and np.sum(y_percussive**2)
PowerValues == {0, 4, 100, 10000}

\* librosa.effects.hpss and the two powers: it raises, or gives the powers
HpssAnswers ==
    {[kind |-> "raise", harmonic_power |-> 0, percussive_power |-> 0]}
    \cup {[kind |-> "ok", harmonic_power |-> h, percussive_power |-> q] :
             h \in PowerValues, q \in PowerValues}

NoEntropy == [kind |-> "n/a", value |-> 0]

\* np.histogram(periods, bins='auto', density=True) followed by entropy(hist).
\* Without a frame the only bin holds 0/0 and the entropy is nan (or the
\* call raises); with a single period value there is one bin and the
\* entropy is 0; otherwise the call raises or gives a value (0.1, 0.25, ln 2).
EntropyAnswers(pitch) ==
    LET f == pitch.f0_valid
    IN  IF pitch.kind = "raise" THEN {NoEntropy}
        ELSE IF f = <<>>
        THEN {[kind |-> "ok", value |-> NaN], [kind |-> "raise", value |-> 0]}
        ELSE IF \A i \in DOMAIN f : f[i] = f[1]
        THEN {[kind |-> "ok", value |-> 0]}
        ELSE {[kind |-> "raise", value |-> 0]}
             \cup {[kind |-> "ok", value |-> v] : v \in {10000, 25000, 69315}}

\* what the library calls of one extraction answer
ExtractAnswers ==
    UNION {{[kind |-> "audio", pitch |-> pt, hpss |-> h, entropy |-> e] :
               h \in HpssAnswers, e \in EntropyAnswers(pt)} :
           pt \in PitchAnswers}

MaxOf(f) == CHOOSE x \in Range(f) : \A y \in Range(f) : y <= x
MinOf(f) == CHOOSE x \in Range(f) : \A y \in Range(f) : x <= y

\* np.mean, np.max and np.min of the valid frames when there are more than
\* five of them, the defaults otherwise
F0Features(pitch, features) ==
    IF pitch.kind = "ok" /\ Len(pitch.f0_valid) > 5
    THEN [features EXCEPT !.mdvpFo = SumSeq(pitch.f0_valid) \div Len(pitch.f0_valid),
                          !.mdvpFhi = MaxOf(pitch.f0_valid),
                          !.mdvpFlo = MinOf(pitch.f0_valid)]
    ELSE features

\* 100000 * np.log10(x) for the power values
Log10(x) ==
    CASE x = 4 -> 60206
      [] x = 100 -> 200000
      [] x = 10000 -> 400000

\* extract_voice_features_safely(audio_data, sample_rate); has_audio is
\* "audio_data is not None and len(audio_data) > 0".  The 1e-10 added to the
\* divisors is below the resolution of the powers.
extract_voice_features_safely(has_audio, a) ==
    LET defaults == VoiceDefaults
        f1 == F0Features(a.pitch, defaults)
        hp == a.hpss.harmonic_power
        pp == a.hpss.percussive_power
        f2 == IF a.hpss.kind = "ok" /\ hp > 0 /\ pp > 0
              THEN [f1 EXCEPT
                      !.hnr = Clamp(10 * (Log10(hp) - Log10(pp)),
                                    1200000, 2800000),
                      !.nhr = Clamp((pp * 100000) \div hp, 1000, 19000)]
              ELSE f1
        \* 1.0 / f0_valid raises NameError when pyin raised
        f3 == IF f2.mdvpFo > 0 /\ a.pitch.kind = "ok"
                 /\ a.entropy.kind = "ok"
              THEN [f2 EXCEPT !.ppe = Clamp(a.entropy.value, 15000, 35000)]
              ELSE f2
    IN  [kind |-> "return", features |-> IF has_audio THEN f3 ELSE defaults]

\* extract_voice_features(data, sr) of predictions.py: only the pitch stage
\* is inside a try block; f0_valid is unbound when pyin raised
extract_voice_features(a) ==
    LET f1 == F0Features(a.pitch, VoiceDefaults)
        hp == a.hpss.harmonic_power
        pp == a.hpss.percussive_power
        hnr == Clamp((hp * 100000) \div (pp + 1), 1200000, 2800000)
        nhr == Clamp((pp * 100000) \div (hp + 1), 1000, 19000)
        ppe == IF Len(a.pitch.f0_valid) > 1
               THEN Clamp(a.entropy.value, 15000, 35000)
               ELSE 20600
    IN  IF a.hpss.kind = "raise"
        THEN [kind |-> "raise", error |-> "hpss"]
        ELSE IF a.pitch.kind = "raise"
        THEN [kind |-> "raise", error |-> "UnboundLocalError"]
        ELSE IF Len(a.pitch.f0_valid) > 1 /\ a.entropy.kind = "raise"
        THEN [kind |-> "raise", error |-> "entropy"]
        ELSE [kind |-> "return",
              features |-> [f1 EXCEPT !.hnr = hnr, !.nhr = nhr, !.ppe = ppe]]

Extractors == {"extract_voice_features_safely", "extract_voice_features"}

\* the answers used for an empty recording, where no library call is made
SilentAnswers ==
    [kind |-> "audio", pitch |-> [kind |-> "ok", f0_valid |-> <<>>],
     hpss |-> [kind |-> "ok", harmonic_power |-> 0, percussive_power |-> 0],
     entropy |-> [kind |-> "ok", value |-> NaN]]

InitExtract ==
    /\ phase = "function"
    /\ models = FunctionRegistry
    /\ scaler = NoneH
    /\ \E fn \in Extractors, has_audio \in BOOLEAN, a \in ExtractAnswers :
         /\ has_audio \/ (fn = "extract_voice_features_safely"
                          /\ a = SilentAnswers)
         /\ req = [endpoint |-> fn, has_audio |-> has_audio]
         /\ lib = a
    /\ calls = <<>>
    /\ resp = NoResp
    /\ tmp_files = {}

\* one call of an extractor; status 1 marks that the call has ended
ApplyExtract ==
    /\ req.endpoint \in Extractors
    /\ resp = NoResp
    /\ resp' = [status |-> 1,
                result |-> IF req.endpoint = "extract_voice_features_safely"
                           THEN extract_voice_features_safely(req.has_audio, lib)
                           ELSE extract_voice_features(lib)]
    /\ UNCHANGED <<phase, models, scaler, req, lib, calls, tmp_files>>

NextExtract == ApplyExtract

SpecExtract == InitExtract /\ [][NextExtract]_vars

(***************************************************************************)
(* POST /analyze_voice: the handler analyze_voice_features of              *)
(* predictions.py and the handler of the same name of                      *)
(* routers/analyze_voice.py.  Content types are sequences of characters.   *)
(***************************************************************************)

\* str.lower() of one character
LowerChar(c) ==
    CASE c = "A" -> "a"
      [] c = "B" -> "b"
      [] c = "C" -> "c"
      [] c = "D" -> "d"
      [] c = "E" -> "e"
      [] c = "F" -> "f"
      [] c = "G" -> "g"
      [] c = "H" -> "h"
      [] c = "I" -> "i"
      [] c = "J" -> "j"
      [] c = "K" -> "k"
      [] c = "L" -> "l"
      [] c = "M" -> "m"
      [] c = "N" -> "n"
      [] c = "O" -> "o"
      [] c = "P" -> "p"
      [] c = "Q" -> "q"
      [] c = "R" -> "r"
      [] c = "S" -> "s"
      [] c = "T" -> "t"
      [] c = "U" -> "u"
      [] c = "V" -> "v"
      [] c = "W" -> "w"
      [] c = "X" -> "x"
      [] c = "Y" -> "y"
      [] c = "Z" -> "z"
      [] OTHER -> c

\* str.lower()
Lower(s) == [i \in DOMAIN s |-> LowerChar(s[i])]

\* s.startswith(prefix)
StartsWith(s, prefix) ==
    Len(s) >= Len(prefix) /\ SubSeq(s, 1, Len(prefix)) = prefix

\* s.split(c)[0]
RECURSIVE SplitFirst(_, _)
SplitFirst(s, c) ==
    IF s = <<>> THEN <<>>
    ELSE IF Head(s) = c THEN <<>>
    ELSE <<Head(s)>> \o SplitFirst(Tail(s), c)

\* "audio/"
AudioPrefix ==
    <<"a", "u", "d", "i", "o", "/">>

accepted_types ==
    {
        <<"a", "u", "d", "i", "o", "/", "w", "a", "v">>,
        <<"a", "u", "d", "i", "o", "/", "w", "a", "v", "e">>,
        <<"a", "u", "d", "i", "o", "/", "x", "-", "w", "a", "v">>,
        <<"a", "u", "d", "i", "o", "/", "w", "e", "b", "m">>,
        <<"a", "u", "d", "i", "o", "/", "o", "g", "g">> }

\* the content types of the uploads: no Content-Type on the part, an empty
\* one, and the values
\*   text/plain
\*   audio/wav
\*   audio/x-wav
\*   audio/ogg
\*   audio/mpeg
\*   audio/webm;codecs=opus
\*   audio/WAV
\*   Audio/wav
\*   audio/webm ;codecs=opus
\*   audio
ContentTypes ==
    {[present |-> FALSE], [present |-> TRUE, value |-> <<>>]}
    \cup {[present |-> TRUE, value |-> v] : v \in {
        <<"t", "e", "x", "t", "/", "p", "l", "a", "i", "n">>,
        <<"a", "u", "d", "i", "o", "/", "w", "a", "v">>,
        <<"a", "u", "d", "i", "o", "/", "x", "-", "w", "a", "v">>,
        <<"a", "u", "d", "i", "o", "/", "o", "g", "g">>,
        <<"a", "u", "d", "i", "o", "/", "m", "p", "e", "g">>,
        <<"a", "u", "d", "i", "o", "/", "w", "e", "b", "m", ";", "c",
          "o", "d", "e", "c", "s", "=", "o", "p", "u", "s">>,
        <<"a", "u", "d", "i", "o", "/", "W", "A", "V">>,
        <<"A", "u", "d", "i", "o", "/", "w", "a", "v">>,
        <<"a", "u", "d", "i", "o", "/", "w", "e", "b", "m", " ", ";",
          "c", "o", "d", "e", "c", "s", "=", "o", "p", "u", "s">>,
        <<"a", "u", "d", "i", "o">> }}

\* the filenames of the uploads
Filenames == {"", "voice.webm"}

\* the content type checks of the handler of predictions.py: "ok", or the
\* error of the HTTPException(422) that is raised
ValidateContentType(content_type) ==
    IF ~content_type.present \/ content_type.value = <<>>
    THEN "Missing content type"
    ELSE IF ~StartsWith(content_type.value, AudioPrefix)
    THEN "Invalid file type"
    ELSE IF SplitFirst(Lower(content_type.value), ";") \notin accepted_types
    THEN "Unsupported audio format"
    ELSE "ok"

\* all checks before the temporary file is made
ValidateUpload(r) ==
    IF r.filename = "" THEN "Missing filename"
    ELSE ValidateContentType(r.content_type)

\* largest number of temporary files left on disk before uploads stop
MaxTempFiles == 2

\* tempfile.NamedTemporaryFile picks a name that is not in use
FreshFile(files) ==
    CHOOSE f \in 1..(Cardinality(files) + 1) : f \notin files

NoPath == [present |-> FALSE]

\* the outcomes of soundfile.read, librosa.load with the file's own rate
\* and librosa.load at 22050 Hz on the temporary file
LoadAnswers ==
    {[sf_read |-> a, librosa_load |-> b, librosa_load_22050 |-> c] :
        a \in BOOLEAN, b \in BOOLEAN, c \in BOOLEAN}

\* the extraction answers used behind the upload handlers: pitch tracking
\* raises or finds MaxFrames frames of changing pitch, the separation raises
\* or finds a harmonic voice, the entropy call raises or gives 0.25
UploadExtractAnswers ==
    {a \in ExtractAnswers :
        /\ a.pitch.kind = "ok" =>
              /\ Len(a.pitch.f0_valid) = MaxFrames
              /\ Range(a.pitch.f0_valid) # {12600000}
        /\ a.hpss.kind = "ok" =>
              a.hpss.harmonic_power = 100 /\ a.hpss.percussive_power = 4
        /\ a.entropy.kind = "ok" => a.entropy.value = 25000}

\* a recording that is read, written, loaded and analysed without an error
GoodUpload ==
    [kind |-> "upload", read_ok |-> TRUE, write_ok |-> TRUE,
     load |-> [sf_read |-> TRUE, librosa_load |-> TRUE,
               librosa_load_22050 |-> TRUE],
     remove_ok |-> TRUE,
     answers |-> CHOOSE a \in UploadExtractAnswers :
                     /\ a.pitch.kind = "ok" /\ a.hpss.kind = "ok"
                     /\ a.entropy.kind = "ok"]

\* what the calls behind one upload answer: reading the upload raises,
\* writing the temporary file raises, or both work and the loaders, the
\* extraction stages and os.remove each succeed or raise
UploadAnswers ==
    {[GoodUpload EXCEPT !.read_ok = FALSE],
     [GoodUpload EXCEPT !.write_ok = FALSE]}
    \cup {[GoodUpload EXCEPT !.load = ld, !.remove_ok = rm, !.answers = a] :
             ld \in {x \in LoadAnswers :
                        (x.librosa_load => x.librosa_load_22050)
                        /\ (x.sf_read => x.librosa_load)},
             rm \in BOOLEAN, a \in UploadExtractAnswers}

\* The finally block of the handler of predictions.py.  path is
\* tmp_audio_file_path, pending the response the try and except blocks
\* ended with.  os.path.exists(None) raises TypeError; the exception leaves
\* the handler in place of the pending one and the client gets a 500.
CleanupPredictions(path, pending, files, remove_ok) ==
    IF ~path.present
    THEN [calls |-> <<Call("os.path.exists", "None", 0)>>,
          resp |-> [status |-> 500, detail |-> "Internal Server Error"],
          tmp_files |-> files]
    ELSE IF path.name \notin files
    THEN [calls |-> <<Call("os.path.exists", "tmp", path.name)>>,
          resp |-> pending, tmp_files |-> files]
    ELSE [calls |-> <<Call("os.path.exists", "tmp", path.name),
                      Call("os.remove", "tmp", path.name)>>,
          resp |-> pending,
          tmp_files |-> IF remove_ok THEN files \ {path.name} ELSE files]

\* the finally block of the handler of routers/analyze_voice.py
CleanupAnalyzeVoice(path, pending, files, remove_ok) ==
    IF ~path.present
    THEN [calls |-> <<>>, resp |-> pending, tmp_files |-> files]
    ELSE CleanupPredictions(path, pending, files, remove_ok)

\* analyze_voice_features of predictions.py for the upload r, with the
\* library answers l and the temporary files on disk; the result gives the
\* calls made, the response and the files on disk afterwards
analyze_voice_features(r, l, files) ==
    LET f == FreshFile(files)
        v == ValidateUpload(r)
        c_read == <<Call("NamedTemporaryFile", "tmp", f),
                    Call("audio_file.read", "upload", 0)>>
        c_write == c_read \o <<Call("write", "tmp", f)>>
        c_load == c_write \o <<Call("sf.read", "tmp", f)>>
                  \o (IF l.load.sf_read THEN <<>>
                      ELSE <<Call("librosa.load", "tmp", f)>>)
        c_extract == c_load \o <<Call("extract_voice_features", "-", 0)>>
        result == extract_voice_features(l.answers)
        unexpected == [status |-> 500,
                       detail |-> "An unexpected error occurred during voice analysis"]
        \* the state at the finally block: calls so far, value of
        \* tmp_audio_file_path, files on disk, pending response
        at_finally ==
            IF v # "ok"
            THEN [calls |-> <<>>, path |-> NoPath, files |-> files,
                  pending |-> [status |-> 422, detail |-> v]]
            ELSE IF ~l.read_ok
            THEN [calls |-> c_read, path |-> NoPath,
                  files |-> files \cup {f}, pending |-> unexpected]
            ELSE IF ~l.write_ok
            THEN [calls |-> c_write, path |-> NoPath,
                  files |-> files \cup {f}, pending |-> unexpected]
            ELSE [calls |-> c_extract,
                  path |-> [present |-> TRUE, name |-> f],
                  files |-> files \cup {f},
                  pending |-> IF result.kind = "raise" THEN unexpected
                              ELSE [status |-> 200,
                                    features |-> result.features]]
        fin == CleanupPredictions(at_finally.path, at_finally.pending,
                                  at_finally.files, l.remove_ok)
    IN  [calls |-> at_finally.calls \o fin.calls, resp |-> fin.resp,
         tmp_files |-> fin.tmp_files]

\* load_audio_safely(file_path): the calls it makes and whether it returns
\* audio
load_audio_safely(ld, f) ==
    [calls |-> <<Call("sf.read", "tmp", f)>>
               \o (IF ld.sf_read THEN <<>>
                   ELSE <<Call("librosa.load", "tmp", f)>>
                        \o (IF ld.librosa_load THEN <<>>
                            ELSE <<Call("librosa.load_22050", "tmp", f)>>)),
     loaded |-> ld.sf_read \/ ld.librosa_load \/ ld.librosa_load_22050]

\* analyze_voice_features of routers/analyze_voice.py
router_analyze_voice_features(r, l, files) ==
    LET f == FreshFile(files)
        path == [present |-> TRUE, name |-> f]
        c_read == <<Call("NamedTemporaryFile", "tmp", f),
                    Call("audio_file.read", "upload", 0)>>
        c_write == c_read \o <<Call("write", "tmp", f)>>
        audio == load_audio_safely(l.load, f)
        c_load == c_write \o audio.calls
        c_extract == c_load
                     \o <<Call("extract_voice_features_safely", "-", 0)>>
        result == extract_voice_features_safely(TRUE, l.answers)
        unexpected == [status |-> 500,
                       detail |-> "An error occurred during voice analysis"]
        at_finally ==
            IF ~l.read_ok THEN [calls |-> c_read, pending |-> unexpected]
            ELSE IF ~l.write_ok
            THEN [calls |-> c_write, pending |-> unexpected]
            ELSE IF ~audio.loaded
            THEN [calls |-> c_load,
                  pending |-> [status |-> 422,
                               detail |-> "Could not process the audio file. Please try a different format."]]
            ELSE [calls |-> c_extract,
                  pending |-> [status |-> 200, features |-> result.features]]
        fin == CleanupAnalyzeVoice(path, at_finally.pending, files \cup {f},
                                   l.remove_ok)
    IN  [calls |-> at_finally.calls \o fin.calls, resp |-> fin.resp,
         tmp_files |-> fin.tmp_files]

InitVoice ==
    /\ phase = "serving"
    /\ models = FunctionRegistry
    /\ scaler = NoneH
    /\ req = NoReq
    /\ lib = NoLib
    /\ calls = <<>>
    /\ resp = NoResp
    /\ tmp_files = {}

\* one upload to the route /api/v1/analyze_voice, which predictions.router
\* serves; an upload that fails the checks makes no library call
AnalyzeVoice ==
    /\ phase = "serving"
    /\ Idle
    /\ Cardinality(tmp_files) < MaxTempFiles
    /\ \E fname \in Filenames, ct \in ContentTypes, l \in UploadAnswers :
         LET r == [endpoint |-> "analyze_voice", handler |-> "predictions",
                   filename |-> fname, content_type |-> ct]
             b == analyze_voice_features(r, l, tmp_files)
         IN  /\ ValidateUpload(r) # "ok" => l = GoodUpload
             /\ req' = r
             /\ lib' = l
             /\ calls' = b.calls
             /\ resp' = b.resp
             /\ tmp_files' = b.tmp_files
    /\ UNCHANGED <<phase, models, scaler>>

\* one call of the handler of routers/analyze_voice.py
RouterAnalyzeVoice ==
    /\ phase = "serving"
    /\ Idle
    /\ Cardinality(tmp_files) < MaxTempFiles
    /\ \E fname \in Filenames, ct \in ContentTypes, l \in UploadAnswers :
         LET r == [endpoint |-> "analyze_voice", handler |-> "analyze_voice",
                   filename |-> fname, content_type |-> ct]
             b == router_analyze_voice_features(r, l, tmp_files)
         IN  /\ req' = r
             /\ lib' = l
             /\ calls' = b.calls
             /\ resp' = b.resp
             /\ tmp_files' = b.tmp_files
    /\ UNCHANGED <<phase, models, scaler>>

NextVoice ==
    \/ AnalyzeVoice
    \/ RouterAnalyzeVoice
    \/ Reply

SpecVoice == InitVoice /\ [][NextVoice]_vars

(***************************************************************************)
(* initialize_models as a function of the files on disk                    *)
(***************************************************************************)

\* number of slots whose files are varied
MaxSlots == 4

\* the safe_load_model calls of initialize_models, in order: the scaler, the
\* feature names, then the items of model_files
SlotOrder ==
    <<"Scaler", "Feature Names", "svm", "random_forest", "neural_network",
      "extra_trees", "ensemble", "adaboost">>

\* the slots in the order in which their files are varied
VariedOrder ==
    <<"svm", "random_forest", "Scaler", "Feature Names", "ensemble",
      "neural_network", "extra_trees", "adaboost">>

\* the "_fixed" file is there and loads
GoodFiles ==
    [fixed_exists |-> TRUE, regular_exists |-> TRUE, joblib_ok |-> TRUE,
     pickle_ok |-> TRUE, refixed_exists |-> FALSE, refixed_ok |-> FALSE]

\* what the files of one slot can be: the three cases of DiskCases, a file
\* that joblib rejects and pickle reads, an unreadable "_fixed" file, and an
\* unreadable "_fixed" file next to a readable "_fixed_fixed" file
LoaderCases ==
    DiskCases
    \cup {[GoodFiles EXCEPT !.joblib_ok = FALSE],
          [GoodFiles EXCEPT !.joblib_ok = FALSE, !.pickle_ok = FALSE],
          [GoodFiles EXCEPT !.joblib_ok = FALSE, !.pickle_ok = FALSE,
                            !.refixed_exists = TRUE, !.refixed_ok = TRUE]}

\* the disks drawn: the first MaxSlots slots of VariedOrder take every case
LoaderDisks ==
    LET varied == {VariedOrder[i] : i \in 1..Min(MaxSlots, Len(VariedOrder))}
    IN  {[sl \in Range(SlotOrder) |-> IF sl \in varied THEN d[sl] ELSE GoodFiles] :
            d \in [varied -> LoaderCases]}

\* an iteration that gives up once an earlier slot is empty
LoadStep_StopAfterFailure(st, slot, disk) ==
    IF \E k \in DOMAIN st.handles : st.handles[k] = NoneH
    THEN [handles |-> Put(st.handles, slot, NoneH), calls |-> st.calls]
    ELSE [handles |-> Put(st.handles, slot, LoadSlot(disk[slot], slot)),
          calls |-> Append(st.calls, Call("safe_load_model", slot, 0))]

\* one safe_load_model call of initialize_models and the assignment of its
\* result; safe_load_model catches the exceptions of every load attempt
LoadStep(st, slot, disk) ==
    [handles |-> Put(st.handles, slot, LoadSlot(disk[slot], slot)),
     calls |-> Append(st.calls, Call("safe_load_model", slot, 0))]

RECURSIVE LoadSlots(_, _, _)
LoadSlots(order, disk, st) ==
    IF order = <<>> THEN st
    ELSE LoadSlots(Tail(order), disk, LoadStep(st, Head(order), disk))

\* initialize_models(): the handles the globals end with and the calls made
initialize_models(disk) ==
    LoadSlots(SlotOrder, disk, [handles |-> EmptyDict, calls |-> <<>>])

\* the module is about to be imported: the globals hold their literals
InitLoader ==
    /\ phase = "start"
    /\ models = [m \in ModelNames |-> NoneH]
    /\ scaler = NoneH
    /\ \E d \in LoaderDisks : req = [endpoint |-> "initialize_models", disk |-> d]
    /\ lib = NoLib
    /\ calls = <<>>
    /\ resp = NoResp
    /\ tmp_files = {}

\* the call initialize_models() at import; feature_names is only written
\* here and never read by a handler, it is kept in the result
InitializeModels ==
    /\ phase = "start"
    /\ phase' = "imported"
    /\ LET r == initialize_models(req.disk)
       IN  /\ scaler' = r.handles["Scaler"]
           /\ models' = [m \in ModelNames |-> r.handles[m]]
           /\ calls' = r.calls
           /\ resp' = [status |-> 1,
                       feature_names |-> r.handles["Feature Names"]]
    /\ UNCHANGED <<req, lib, tmp_files>>

NextLoader == InitializeModels

SpecLoader == InitLoader /\ [][NextLoader]_vars

(***************************************************************************)
(* safe_load_model as a function of one slot's files, with the load        *)
(* attempts it makes                                                       *)
(***************************************************************************)

\* the load attempts of safe_load_model, in the order of the source text
LoadAttempts == <<"joblib.load", "pickle.load", "joblib.load(fixed_path)", "fit">>

\* the attempts safe_load_model(model_path, model_name) makes, in the order
\* in which it makes them
safe_load_model_attempts(path_exists, d, model_name) ==
    IF ~path_exists THEN <<>>
    ELSE IF d.joblib_ok THEN <<"joblib.load">>
    ELSE IF d.pickle_ok THEN <<"joblib.load", "pickle.load">>
    ELSE LET tried == <<"joblib.load", "pickle.load">>
                      \o (IF d.refixed_exists THEN <<"joblib.load(fixed_path)">>
                          ELSE <<>>)
         IN  IF d.refixed_exists /\ d.refixed_ok THEN tried
             ELSE IF IsRandomForestName(model_name) \/ IsScalerName(model_name)
                  THEN Append(tried, "fit")
                  ELSE tried

\* the files one slot can have: a file that does not exist cannot be read
SlotFiles ==
    {d \in DiskCase :
        /\ (~d.fixed_exists /\ ~d.regular_exists) => (~d.joblib_ok /\ ~d.pickle_ok)
        /\ ~d.refixed_exists => ~d.refixed_ok}

\* initialize_models is about to load one slot
InitSafeLoad ==
    /\ phase = "function"
    /\ models = [m \in ModelNames |-> NoneH]
    /\ scaler = NoneH
    /\ \E slot \in Range(SlotOrder), d \in SlotFiles :
         req = [endpoint |-> "safe_load_model", model_name |-> slot, disk |-> d]
    /\ lib = NoLib
    /\ calls = <<>>
    /\ resp = NoResp
    /\ tmp_files = {}

\* the path is chosen as in initialize_models and safe_load_model is called
ApplySafeLoad ==
    /\ phase = "function"
    /\ req.endpoint = "safe_load_model"
    /\ resp = NoResp
    /\ LET path_exists == req.disk.fixed_exists \/ req.disk.regular_exists
           attempts == safe_load_model_attempts(path_exists, req.disk,
                                                req.model_name)
       IN  /\ calls' = [i \in DOMAIN attempts |->
                           Call(attempts[i], req.model_name, 0)]
           /\ resp' = [status |-> 1,
                       model |-> LoadSlot(req.disk, req.model_name)]
    /\ UNCHANGED <<phase, models, scaler, req, lib, tmp_files>>

NextSafeLoad == ApplySafeLoad

SpecSafeLoad == InitSafeLoad /\ [][NextSafeLoad]_vars

(***************************************************************************)
(* The life of the registry: import of predictions.py, the startup hook    *)
(* of main.py, and the calls of ensure_models_loaded made while serving    *)
(***************************************************************************)

\* number of ensure_models_loaded calls followed
MaxEnsureCalls == 2

\* main.lifespan: the startup hook calls predictions.initialize_models()
\* again; every slot is assigned the result of a new safe_load_model call
Startup ==
    /\ phase = "imported"
    /\ phase' = "serving"
    /\ LET r == initialize_models(req.disk)
       IN  /\ scaler' = r.handles["Scaler"]
           /\ models' = [m \in ModelNames |-> r.handles[m]]
           /\ calls' = calls \o r.calls
           /\ resp' = [status |-> 1,
                       feature_names |-> r.handles["Feature Names"]]
    /\ UNCHANGED <<req, lib, tmp_files>>

\* a handler calls ensure_models_loaded(): SCALER_FILE and RF_MODEL_FILE are
\* paths relative to the working directory, so whether joblib.load reads
\* them is independent of the files initialize_models looked at
EnsureModelsLoaded ==
    /\ phase = "serving"
    /\ Cardinality({i \in DOMAIN calls : calls[i].fn = "ensure_models_loaded"})
          < MaxEnsureCalls
    /\ \E scaler_reloads \in ReloadChoices(scaler),
          rf_reloads \in ReloadChoices(models["random_forest"]) :
         LET e == ensure_models_loaded(scaler, models, scaler_reloads, rf_reloads)
         IN  /\ scaler' = e.scaler
             /\ models' = e.models
             /\ calls' = calls
                         \o <<Call("ensure_models_loaded", "-", 0)>>
                         \o (IF scaler_reloads
                             THEN <<Call("joblib.load", "Scaler", 0)>> ELSE <<>>)
                         \o (IF rf_reloads
                             THEN <<Call("joblib.load", "random_forest", 0)>>
                             ELSE <<>>)
    /\ UNCHANGED <<phase, req, lib, resp, tmp_files>>

NextLifecycle == InitializeModels \/ Startup \/ EnsureModelsLoaded

SpecLifecycle == InitLoader /\ [][NextLifecycle]_vars

(***************************************************************************)
(* Properties                                                              *)
(***************************************************************************)

SchemaNames == Range(EXPECTED_FEATURE_NAMES)

\* the alias registered for a schema name
AliasOf(n) ==
    FEATURE_MAPPING[CHOOSE i \in DOMAIN FEATURE_MAPPING :
                        FEATURE_MAPPING[i][2] = n][1]

MapperReturned == req.endpoint = "prepare_model_input" /\ resp.status = 1

\* C1: for every input mapping prepare_model_input returns a mapping whose
\* keys are exactly the 22 schema names; each value is the one supplied
\* under the alias if present, else the registered default, else 0.0.
C1_PrepareModelInputTotal ==
    MapperReturned =>
        /\ DOMAIN resp.output = SchemaNames
        /\ Cardinality(DOMAIN resp.output) = 22
        /\ \A n \in SchemaNames :
             resp.output[n] =
                 IF AliasOf(n) \in DOMAIN req.input THEN req.input[AliasOf(n)]
                 ELSE IF n \in DOMAIN DEFAULT_VALUES THEN DEFAULT_VALUES[n]
                 ELSE 0

\* an input with an unknown key and a supplied alias, missing one alias
\* with a registered default and one without
C1_Witness ==
    /\ MapperReturned
    /\ {"extra_key", "ppe"} \subseteq DOMAIN req.input
    /\ "mdvpRap" \notin DOMAIN req.input
    /\ "mdvpFo" \notin DOMAIN req.input
    /\ resp.output["MDVP:RAP"] = 300
    /\ resp.output["MDVP:Fo(Hz)"] = 0
    /\ resp.output["PPE"] = req.input["ppe"]

AssessAnswered == req.endpoint = "assess_clinical" /\ resp.status = 200

B(flag) == IF flag THEN 1 ELSE 0

\* the rubric as the specification states it, in units of 1/RiskUnit
RubricScore(s) ==
    LET age_term == IF s.age <= 40 THEN 0
                    ELSE IF s.age < 80 THEN (15 * (s.age - 40) * RiskUnit) \div 40
                    ELSE 15 * RiskUnit
    IN  Min(100 * RiskUnit,
            RiskUnit * (25 * B(s.tremor) + 25 * B(s.bradykinesia)
                        + 20 * B(s.rigidity) + 15 * B(s.posturalInstability)
                        + 10 * B(s.voiceChanges) + 5 * B(s.handwriting))
            + age_term)

OnlySymptoms(s, names) ==
    /\ s.tremor = ("tremor" \in names)
    /\ s.rigidity = ("rigidity" \in names)
    /\ s.bradykinesia = ("bradykinesia" \in names)
    /\ s.posturalInstability = ("posturalInstability" \in names)
    /\ s.voiceChanges = ("voiceChanges" \in names)
    /\ s.handwriting = ("handwriting" \in names)

\* C2: the clinical score is min(100, 25 tremor + 25 bradykinesia + 20
\* rigidity + 15 posturalInstability + 10 voiceChanges + 5 handwriting +
\* age_term) and lies in [0, 100]; tremor + bradykinesia at 70 gives 61.25.
C2_ClinicalRubric ==
    AssessAnswered =>
        /\ resp.clinical_risk = RubricScore(req.clinical_symptoms)
        /\ resp.clinical_risk >= 0
        /\ resp.clinical_risk <= 100 * RiskUnit
        /\ (OnlySymptoms(req.clinical_symptoms, {"tremor", "bradykinesia"})
            /\ req.clinical_symptoms.age = 70)
           => 4 * resp.clinical_risk = 245 * RiskUnit

C2_Witness ==
    /\ AssessAnswered
    /\ OnlySymptoms(req.clinical_symptoms, {"tremor", "bradykinesia"})
    /\ req.clinical_symptoms.age = 70
    /\ 4 * resp.clinical_risk = 245 * RiskUnit

\* C3: when /assess_clinical receives voice features and the selected
\* classifier gives the probability p for them, the response has
\* probability 0.6 p + 0.4 clinical/100, risk_score 0.6 (100 p) + 0.4
\* clinical and prediction 1 exactly when that probability exceeds 0.5.
C3_FusedUsesClassifierProbability ==
    (AssessAnswered /\ req.voice_features.present /\ lib.kind = "classifier") =>
        LET clinical == RubricScore(req.clinical_symptoms)
            p == lib.proba
        IN  /\ 10 * resp.probability = 6 * p + 4 * clinical
            /\ 10 * resp.risk_score = 6 * ((100 * RiskUnit * p) \div ProbUnit)
                                      + 4 * clinical
            /\ resp.prediction = IF 2 * resp.probability > ProbUnit THEN 1 ELSE 0

\* C4: a successful /assess_clinical response without (used) voice data has
\* probability clinical/100, risk_score clinical and prediction 1 exactly
\* when clinical > 50; all false at 30 gives 0 / 0, tremor + rigidity +
\* bradykinesia at 85 gives 85 / 1.
C4_ClinicalOnly ==
    (AssessAnswered /\ (~req.voice_features.present \/ ~resp.has_voice_data)) =>
        LET clinical == RubricScore(req.clinical_symptoms)
            s == req.clinical_symptoms
        IN  /\ resp.probability * 100 * RiskUnit = clinical * ProbUnit
            /\ resp.risk_score = clinical
            /\ resp.prediction = IF clinical > 50 * RiskUnit THEN 1 ELSE 0
            /\ clinical = 50 * RiskUnit => resp.prediction = 0
            /\ (OnlySymptoms(s, {}) /\ s.age = 30)
               => (resp.risk_score = 0 /\ resp.prediction = 0)
            /\ (OnlySymptoms(s, {"tremor", "rigidity", "bradykinesia"})
                /\ s.age = 85)
               => (resp.risk_score = 85 * RiskUnit /\ resp.prediction = 1)

C4_Witness ==
    /\ AssessAnswered
    /\ ~req.voice_features.present
    /\ OnlySymptoms(req.clinical_symptoms, {"tremor", "rigidity", "bradykinesia"})
    /\ req.clinical_symptoms.age = 85
    /\ resp.risk_score = 85 * RiskUnit
    /\ resp.prediction = 1

\* the label "<model>_with_clinical" of a registry model
FusedLabels(m) ==
    {m \o "_with_clinical",
     (IF m = "ensemble" THEN "ensemble_voting_classifier" ELSE m)
         \o "_with_clinical"}

\* the probability of model m was asked for and fused into the response
FusedFrom(m) ==
    /\ Truthy(models[m])
    /\ \E i \in DOMAIN calls : calls[i].fn = "predict_proba" /\ calls[i].model = m
    /\ lib.kind = "classifier"
    /\ 10 * resp.probability
           = 6 * lib.proba + 4 * RubricScore(req.clinical_symptoms)

ClinicalOnlyResult ==
    /\ resp.probability = RubricScore(req.clinical_symptoms)
    /\ resp.risk_score = RubricScore(req.clinical_symptoms)
    /\ ~req.voice_features.present

\* C5: model_used is "clinical_assessment" exactly when the clinical-only
\* formula produced the result (has_voice_data false); otherwise it is
\* "<model>_with_clinical" for the loaded classifier whose probability was
\* fused, and has_voice_data is true.
C5_ModelUsedLabelsPath ==
    AssessAnswered =>
        /\ (resp.model_used = "clinical_assessment") <=> ClinicalOnlyResult
        /\ ClinicalOnlyResult => ~resp.has_voice_data
        /\ ~ClinicalOnlyResult =>
             /\ resp.has_voice_data
             /\ \E m \in ModelNames :
                  resp.model_used \in FusedLabels(m) /\ FusedFrom(m)

\* C6: a successful /assess_clinical response has prediction in {0, 1},
\* probability in [0, 1] and risk_score in [0, 100].
C6_ResponseRanges ==
    AssessAnswered =>
        /\ resp.prediction \in {0, 1}
        /\ resp.probability >= 0 /\ resp.probability <= ProbUnit
        /\ resp.risk_score >= 0 /\ resp.risk_score <= 100 * RiskUnit

\* every symptom at age 85 without voice: the score reaches the cap
C6_Witness ==
    /\ AssessAnswered
    /\ ~req.voice_features.present
    /\ OnlySymptoms(req.clinical_symptoms,
                    {"tremor", "rigidity", "bradykinesia",
                     "posturalInstability", "voiceChanges", "handwriting"})
    /\ req.clinical_symptoms.age = 85
    /\ resp.risk_score = 100 * RiskUnit
    /\ resp.probability = ProbUnit

PredictAnswered == req.endpoint = "predict" /\ resp.status # 0

\* C7: /predict answers 503 exactly when the scaler is absent or both
\* ensemble and random_forest are absent, and then nothing was mapped,
\* scaled or inferred.
C7_Predict503 ==
    PredictAnswered =>
        /\ (resp.status = 503) <=>
               (scaler = NoneH
                \/ (models["ensemble"] = NoneH /\ models["random_forest"] = NoneH))
        /\ resp.status = 503 => calls = <<>>
        /\ resp.status # 503 => calls # <<>>

\* the scaler is loaded, both models are absent: 503 without any call
C7_Witness ==
    /\ PredictAnswered
    /\ resp.status = 503
    /\ scaler # NoneH
    /\ calls = <<>>

MultiAnswered ==
    req.endpoint \in {"predict_all", "api_v1_predict_all"} /\ resp.status # 0

\* C8: with every registry slot unloaded the multi-model endpoint answers an
\* error, never a success without per-model predictions.
C8_NoModelsNoEmptySuccess ==
    (MultiAnswered /\ \A m \in ModelNames : models[m] = NoneH) =>
        resp.status >= 400

\* C9: when at least one loaded model's inference does not raise, the
\* multi-model endpoint answers a success with a prediction for exactly the
\* loaded models whose inference did not raise.
C9_SurvivorsAnswered ==
    (MultiAnswered /\ lib.kind = "multi" /\ lib.transform = "ok"
       /\ Survivors(models, lib) # {}) =>
        /\ resp.status = 200
        /\ IF req.endpoint = "predict_all"
           THEN DOMAIN resp.predictions = Survivors(models, lib)
           ELSE {resp.predictions[i].name : i \in DOMAIN resp.predictions}
                    = Survivors(models, lib)

SummaryAnswered == req.endpoint = "summary" /\ resp.status = 200

LoadedModels(ms) == {m \in DOMAIN ms : Truthy(ms[m])}

\* C11: after loading, a model identifier is reported as available (GET
\* /models, loaded_models of /predict_all, get_available_models,
\* is_model_available) exactly when its slot holds a loaded handle; an empty
\* slot is never listed.
C11_AvailabilityMatchesHandles ==
    phase = "serving" =>
        /\ Range(get_available_models(models)) = LoadedModels(models)
        /\ \A m \in ModelNames :
              is_model_available(models, m) <=> m \in LoadedModels(models)
        /\ (req.endpoint = "models" /\ resp.status = 200) =>
              Range(resp.available_models) = LoadedModels(models)
        /\ (req.endpoint = "predict_all" /\ resp.status = 200) =>
              Range(resp.loaded_models) = LoadedModels(models)

HttpAnswered == req.endpoint = "http" /\ resp.status # 0

\* the handler of the request's route was called
HandlerRan == \E i \in DOMAIN calls : calls[i].fn = "endpoint"

\* the request carries the configured key in its X-API-Key header
CarriesKey ==
    \E i \in DOMAIN req.headers :
        /\ LowerHeaderName(req.headers[i][1]) = "x-api-key"
        /\ \A j \in 1..(i - 1) :
              LowerHeaderName(req.headers[j][1]) # "x-api-key"
        /\ req.headers[i][2] = lib.API_KEY
        /\ req.headers[i][2] # ""

\* C12: on every endpoint other than the liveness probe a request whose
\* X-API-Key header is absent, empty or different from the configured key is
\* answered 403 and the handler body never runs (no call of the handler, no
\* temporary file, registry unchanged); a request with the matching key is
\* never answered 403.
C12_KeyRequired ==
    (HttpAnswered /\ req.path # "/test") =>
        IF CarriesKey
        THEN resp.status # 403 /\ HandlerRan
        ELSE /\ resp.status = 403
             /\ ~HandlerRan
             /\ tmp_files = {}
             /\ models = FunctionRegistry /\ scaler = NoneH

\* a wrong key on the upload endpoint: 403 and the handler was not called
C12_Witness ==
    /\ HttpAnswered
    /\ req.path = "/api/v1/analyze_voice"
    /\ req.headers = << <<"X-API-Key", "not-the-key">> >>
    /\ resp.status = 403
    /\ ~HandlerRan

\* C13: the liveness probe GET /test needs no authentication: a request to
\* it without an X-API-Key header is answered with the healthy payload, not
\* 403.
C13_TestNeedsNoKey ==
    (HttpAnswered /\ req.path = "/test" /\ req.headers = <<>>) =>
        /\ resp.status = 200
        /\ resp.body.status = "healthy"

VoiceAnswered == req.endpoint = "analyze_voice" /\ resp.status # 0

\* the temporary files the request made
CreatedFiles ==
    {calls[i].width : i \in {j \in DOMAIN calls :
                                calls[j].fn = "NamedTemporaryFile"}}

\* C14: POST /analyze_voice answers an upload whose content type is missing,
\* does not start with audio/, or (lower-cased, cut at the first ';') is not
\* in the allow-list with a 400/422 response and makes no temporary file; an
\* upload whose stripped content type is in the allow-list passes validation
\* and reaches the creation of the temporary file.
C14_ContentTypeChecked ==
    (VoiceAnswered /\ req.handler = "predictions" /\ req.filename # "") =>
        IF ValidateContentType(req.content_type) # "ok"
        THEN resp.status \in {400, 422} /\ CreatedFiles = {}
        ELSE CreatedFiles # {}

\* C15: on every exit path of an /analyze_voice request (os.remove itself
\* working) no temporary file made by the request exists once the request
\* has completed, and each file it made was deleted exactly once.
C15_TempFileDeletedOnce ==
    (VoiceAnswered /\ lib.remove_ok) =>
        \A f \in CreatedFiles :
            /\ f \notin tmp_files
            /\ Cardinality({i \in DOMAIN calls :
                               calls[i].fn = "os.remove"
                               /\ calls[i].width = f}) = 1

Extracted == req.endpoint \in Extractors /\ resp.status = 1

\* C16: extraction is total: whatever stages raise, the extractor returns
\* all 13 features and a stage that raised leaves its features at their
\* defaults.
C16_ExtractionTotal ==
    Extracted =>
        /\ resp.result.kind = "return"
        /\ DOMAIN resp.result.features = CombinedFeatures
        /\ lib.pitch.kind = "raise" =>
              /\ resp.result.features.mdvpFo = VoiceDefaults.mdvpFo
              /\ resp.result.features.mdvpFhi = VoiceDefaults.mdvpFhi
              /\ resp.result.features.mdvpFlo = VoiceDefaults.mdvpFlo
        /\ lib.hpss.kind = "raise" =>
              /\ resp.result.features.hnr = VoiceDefaults.hnr
              /\ resp.result.features.nhr = VoiceDefaults.nhr
        /\ lib.entropy.kind = "raise" =>
              resp.result.features.ppe = VoiceDefaults.ppe

\* C17: Fo/Fhi/Flo are the mean/max/min of the valid pitch frames when
\* tracking succeeds with at least 5 valid frames, and exactly the defaults
\* 154.23/197.35/116.82 with fewer than 5 valid frames or when tracking
\* raises.
C17_PitchStatistics ==
    (Extracted /\ resp.result.kind = "return" /\ req.has_audio) =>
        LET f == lib.pitch.f0_valid
            out == resp.result.features
        IN  IF lib.pitch.kind = "ok" /\ Len(f) >= 5
            THEN /\ out.mdvpFo = SumSeq(f) \div Len(f)
                 /\ \A i \in DOMAIN f : f[i] <= out.mdvpFhi /\ out.mdvpFlo <= f[i]
                 /\ {out.mdvpFhi, out.mdvpFlo} \subseteq Range(f)
            ELSE /\ out.mdvpFo = 15423000
                 /\ out.mdvpFhi = 19735000
                 /\ out.mdvpFlo = 11682000

\* C18: every returned vector has hnr within [12.0, 28.0] and nhr within
\* [0.01, 0.19], for silence and noise, and whether the harmonic stage
\* computes, skips or raises.
C18_HarmonicRatiosInRange ==
    (Extracted /\ resp.result.kind = "return") =>
        /\ resp.result.features.hnr # NaN
        /\ resp.result.features.nhr # NaN
        /\ 1200000 <= resp.result.features.hnr
        /\ resp.result.features.hnr <= 2800000
        /\ 1000 <= resp.result.features.nhr
        /\ resp.result.features.nhr <= 19000

\* a strongly harmonic recording through each extractor: the raw ratio is
\* above 28 and the returned hnr is 28.0, the raw nhr is below 0.01 and the
\* returned nhr is 0.01
C18_Witness ==
    /\ Extracted
    /\ req.has_audio
    /\ lib.hpss.kind = "ok"
    /\ lib.hpss.harmonic_power = 10000
    /\ lib.hpss.percussive_power = 4
    /\ resp.result.kind = "return"
    /\ resp.result.features.hnr = 2800000
    /\ resp.result.features.nhr = 1000

\* C19: ppe is the default 0.206 with fewer than 2 valid pitch frames (none,
\* one, or tracking raised), and otherwise the histogram entropy of the pitch
\* periods clamped into [0.15, 0.35].
C19_PitchPeriodEntropy ==
    (Extracted /\ resp.result.kind = "return" /\ req.has_audio) =>
        LET ppe == resp.result.features.ppe
            e == lib.entropy
        IN  IF lib.pitch.kind = "raise" \/ Len(lib.pitch.f0_valid) < 2
            THEN ppe = 20600
            ELSE e.kind = "ok" =>
                    ppe = (IF e.value < 15000 THEN 15000
                           ELSE IF e.value > 35000 THEN 35000
                           ELSE e.value)

ModelsInitialized == req.endpoint = "initialize_models" /\ resp.status = 1

\* the handle a slot holds after initialize_models
SlotHandle(slot) ==
    IF slot = "Scaler" THEN scaler
    ELSE IF slot = "Feature Names" THEN resp.feature_names
    ELSE models[slot]

\* C20: for every combination of file outcomes initialize_models attempts
\* to load the scaler, the feature names and each of the six models, and the
\* handle of a slot depends only on that slot's own files: replacing the
\* files of any other slot by any other case leaves it unchanged.
C20_SlotsLoadIndependently ==
    ModelsInitialized =>
        /\ Len(calls) = Len(SlotOrder)
        /\ \A i \in DOMAIN SlotOrder :
              calls[i] = Call("safe_load_model", SlotOrder[i], 0)
        /\ \A other \in Range(SlotOrder), c \in LoaderCases :
              LET changed == initialize_models([req.disk EXCEPT ![other] = c])
              IN  \A slot \in Range(SlotOrder) \ {other} :
                      changed.handles[slot] = SlotHandle(slot)

\* the files of svm are unreadable and those of the scaler are missing:
\* both slots are empty, random_forest and the later models are loaded
C20_Witness ==
    /\ ModelsInitialized
    /\ ~req.disk["svm"].joblib_ok /\ ~req.disk["svm"].pickle_ok
    /\ ~req.disk["Scaler"].fixed_exists /\ ~req.disk["Scaler"].regular_exists
    /\ req.disk["random_forest"] = GoodFiles
    /\ models["svm"] = NoneH
    /\ scaler = NoneH
    /\ models["random_forest"] = Loaded
    /\ models["adaboost"] = Loaded
    /\ resp.feature_names = Loaded

\* C21: after initialize_models, whatever the files of each slot did, the
\* missing file included, the scaler slot and the random_forest slot each
\* hold a usable handle (loaded or stand-in), so at least one model is
\* available.
C21_PrimarySlotsUsable ==
    ModelsInitialized =>
        /\ Truthy(scaler)
        /\ Truthy(models["random_forest"])
        /\ \E m \in ModelNames : Truthy(models[m])

\* an /assess_clinical request that carries voice_features has been handled
StubAnswered == req.endpoint = "assess_clinical" /\ req.voice_features.present

\* the response to a request with voice_features, written from the clinical
\* symptoms alone: 0.6 * 0.65 + 0.4 * clinical / 100 and 0.6 * 65 + 0.4 *
\* clinical
StubExpected(s) ==
    LET clinical == RubricScore(s)
        probability == (6 * ((65 * ProbUnit) \div 100) + 4 * clinical) \div 10
    IN  [status |-> 200,
         prediction |-> IF 2 * probability > ProbUnit THEN 1 ELSE 0,
         probability |-> probability,
         risk_score |-> (6 * 65 * RiskUnit + 4 * clinical) \div 10,
         model_used |-> "ensemble_with_clinical",
         feature_importance |-> "sample",
         has_voice_data |-> TRUE,
         clinical_risk |-> clinical]

\* C22: handling an /assess_clinical request whose voice_features field is
\* present makes no library or registry call, leaves the registry as it
\* was, and gives the response that follows from the clinical symptoms and
\* the constants 0.65 / 65.0 alone, so it is the same for every value of the
\* voice features and every registry state; model_used is
\* "ensemble_with_clinical" and has_voice_data is true.
C22_VoiceStubIgnoresVoiceAndRegistry ==
    [][(Idle /\ StubAnswered')
        => /\ resp' = StubExpected(req'.clinical_symptoms)
           /\ calls' = <<>>
           /\ models' = models
           /\ scaler' = scaler]_vars

\* a request with voice features answered while the registry holds neither
\* a scaler nor any model
C22_Witness ==
    /\ StubAnswered
    /\ req.voice_features.features["mdvpFo"] = 11999
    /\ scaler = NoneH
    /\ \A m \in ModelNames : models[m] = NoneH
    /\ resp.status = 200
    /\ resp.has_voice_data
    /\ resp.model_used = "ensemble_with_clinical"

SafeLoadReturned == req.endpoint = "safe_load_model" /\ resp.status = 1

\* the attempts that apply to a model name: the stand-in only for the
\* random-forest model and the scaler
ApplicableAttempts(model_name) ==
    IF model_name \in {"random_forest", "Scaler"} THEN LoadAttempts
    ELSE SubSeq(LoadAttempts, 1, 3)

\* whether an attempt yields an object for the files d
AttemptSucceeds(attempt, d) ==
    CASE attempt = "joblib.load" -> d.joblib_ok
      [] attempt = "pickle.load" -> d.pickle_ok
      [] attempt = "joblib.load(fixed_path)" -> d.refixed_exists /\ d.refixed_ok
      [] attempt = "fit" -> TRUE

\* C23: safe_load_model makes its attempts in the order direct
\* deserialization, pickle, the "_fixed" variant, and (random forest and
\* scaler only) the fitted stand-in; an attempt is made only after every
\* earlier applicable one has failed, the result is that of the first
\* attempt that succeeds, and None is returned only when every applicable
\* attempt has failed.
C23_AttemptOrder ==
    SafeLoadReturned =>
        LET order == ApplicableAttempts(req.model_name)
            d == req.disk
            Pos(a) == CHOOSE k \in DOMAIN LoadAttempts : LoadAttempts[k] = a
            succeeding == {k \in DOMAIN order : AttemptSucceeds(order[k], d)}
        IN  /\ \A i \in DOMAIN calls :
                 /\ calls[i].fn \in Range(order)
                 /\ i > 1 => Pos(calls[i - 1].fn) < Pos(calls[i].fn)
                 /\ \A k \in 1..(Pos(calls[i].fn) - 1) :
                        ~AttemptSucceeds(order[k], d)
            /\ succeeding # {} =>
                 LET first == CHOOSE k \in succeeding : \A j \in succeeding : k <= j
                 IN  /\ calls # <<>>
                     /\ calls[Len(calls)].fn = order[first]
                     /\ resp.model = (IF order[first] = "fit" THEN Dummy ELSE Loaded)
            /\ resp.model = NoneH => succeeding = {}

\* the slots of the registry
RegistrySlots == {"Scaler"} \cup ModelNames

RegistryHandle(slot) == IF slot = "Scaler" THEN scaler ELSE models[slot]

\* how many times an object was read or fitted for a slot and stored in it
LoadsOf(slot) ==
    Cardinality({i \in DOMAIN calls :
        /\ calls[i].model = slot
        /\ \/ calls[i].fn = "joblib.load"
           \/ /\ calls[i].fn = "safe_load_model"
              /\ LoadSlot(req.disk[slot], slot) # NoneH})

\* C24: each slot of the registry is loaded at most once per process; once
\* a slot holds a handle no step of import, startup or ensure_models_loaded
\* replaces or clears it, only an empty slot is filled.
C24_LoadedAtMostOnce ==
    [][\A slot \in RegistrySlots :
          /\ RegistryHandle(slot) # NoneH
                => RegistryHandle(slot)' = RegistryHandle(slot)
          /\ LoadsOf(slot)' <= 1]_vars

\* C25: in a successful /predict response computed by the composite
\* classifier, feature_importance is either that of a constituent estimator
\* of the composite or absent, and it is absent exactly when no constituent
\* exposing importances was found.
C25_ImportanceFromConstituent ==
    (PredictAnswered /\ resp.status = 200 /\ SelectedModel(models) = "ensemble") =>
        /\ resp.feature_importance \in {"constituent", "none"}
        /\ (resp.feature_importance = "none") <=> ~lib.constituent

\* the library functions that receive a feature vector
VectorConsumers == {"scaler.transform", "predict", "predict_proba", "decision_function"}

\* C26: on every endpoint each feature vector handed to the scaler or to a
\* classifier has a value for each of the 22 schema names; nothing is
\* scaled or classified on fewer features.
C26_FullWidthVectors ==
    \A i \in DOMAIN calls :
        (/\ calls[i].fn \in VectorConsumers
         /\ calls[i].fn = "scaler.transform" => Truthy(scaler))
            => calls[i].width = Len(EXPECTED_FEATURE_NAMES)

\* the upload passed the checks and was stored in its temporary file
UploadStored ==
    /\ VoiceAnswered
    /\ ValidateUpload(req) = "ok"
    /\ lib.read_ok /\ lib.write_ok

\* position of the first call of fn in the log, 0 when there is none
FirstCall(fn) ==
    IF \E i \in DOMAIN calls : calls[i].fn = fn
    THEN CHOOSE i \in DOMAIN calls :
            calls[i].fn = fn /\ \A j \in 1..(i - 1) : calls[j].fn # fn
    ELSE 0

\* C27: for an upload that passed validation, the general decoder is tried
\* only after the container-aware reader failed, whatever the decoders do
\* the feature extraction runs, and the response is 200 with the 13
\* features: an undecodable upload does not fail the request.
C27_LayeredAudioLoading ==
    UploadStored =>
        /\ FirstCall("sf.read") # 0
        /\ FirstCall("librosa.load") # 0
              => (~lib.load.sf_read /\ FirstCall("sf.read") < FirstCall("librosa.load"))
        /\ \E i \in DOMAIN calls :
              calls[i].fn \in {"extract_voice_features",
                               "extract_voice_features_safely"}
        /\ resp.status = 200
        /\ Cardinality(DOMAIN resp.features) = 13

\* C28: a step that handles /assess_clinical without voice features only
\* fills empty scaler / random_forest slots, and answers 503 exactly when
\* afterwards the scaler is absent or both random_forest and ensemble are
\* absent, otherwise 200 computed without any model call; it never ends in
\* an error raised by ensure_models_loaded.  A step that handles a request
\* with voice features never answers 503.
C28_Assess503 ==
    [][(Idle /\ req'.endpoint = "assess_clinical")
        => IF req'.voice_features.present
           THEN resp'.status # 503
           ELSE /\ scaler # NoneH => scaler' = scaler
                /\ \A m \in ModelNames :
                      (m # "random_forest" \/ models[m] # NoneH)
                          => models'[m] = models[m]
                /\ resp'.status \in {200, 503}
                /\ (resp'.status = 503)
                      <=> \/ scaler' = NoneH
                          \/ /\ models'["random_forest"] = NoneH
                             /\ models'["ensemble"] = NoneH
                /\ calls' = <<Call("ensure_models_loaded", "-", 0)>>]_vars

\* symptoms alone, a scaler but neither random_forest nor ensemble: 503
C28_Witness ==
    /\ req.endpoint = "assess_clinical"
    /\ ~req.voice_features.present
    /\ resp.status = 503
    /\ scaler # NoneH
    /\ models["random_forest"] = NoneH
    /\ models["ensemble"] = NoneH
    /\ models["svm"] # NoneH

\* C29: in every successful /assess_clinical response risk_score is 100
\* times probability and prediction is 1 exactly when probability exceeds
\* 0.5, on the path with voice data and on the clinical-only path.
C29_LabelAgreesWithProbability ==
    AssessAnswered =>
        /\ resp.risk_score * ProbUnit = 100 * RiskUnit * resp.probability
        /\ resp.prediction \in {0, 1}
        /\ (resp.prediction = 1) <=> (2 * resp.probability > ProbUnit)

\* voice features with no symptom at age 30: probability 0.39, risk score
\* 39, label 0
C29_Witness ==
    /\ AssessAnswered
    /\ req.voice_features.present
    /\ OnlySymptoms(req.clinical_symptoms, {})
    /\ req.clinical_symptoms.age = 30
    /\ 100 * resp.probability = 39 * ProbUnit
    /\ resp.risk_score = 39 * RiskUnit
    /\ resp.prediction = 0

SymptomNames ==
    {"tremor", "rigidity", "bradykinesia", "posturalInstability",
     "voiceChanges", "handwriting"}

\* the clinical inputs that differ from s by one symptom turned from false
\* to true, or by a greater age
Raised(s) ==
    {[s EXCEPT ![k] = TRUE] : k \in {n \in SymptomNames : ~s[n]}}
    \cup {[s EXCEPT !.age = a] : a \in {b \in Ages : b > s.age}}

\* what the handler answers for the clinical inputs s, the voice_features
\* field and the registry being those of the request at hand
AssessResponseFor(s) ==
    IF req.voice_features.present THEN StubResponse(s)
    ELSE AssessBody(FALSE, s, scaler, models, NoLib)

\* C30: with the presence of voice features held fixed, turning one symptom
\* from false to true or raising the age never lowers the clinical score,
\* the risk_score or the probability of /assess_clinical, and never turns
\* the prediction from 1 to 0.
C30_MonotoneInClinicalInputs ==
    AssessAnswered =>
        /\ resp = AssessResponseFor(req.clinical_symptoms)
        /\ \A s2 \in Raised(req.clinical_symptoms) :
              LET r2 == AssessResponseFor(s2)
              IN  /\ r2.status = 200
                  /\ r2.clinical_risk >= resp.clinical_risk
                  /\ r2.risk_score >= resp.risk_score
                  /\ r2.probability >= resp.probability
                  /\ r2.prediction >= resp.prediction

\* tremor and bradykinesia at 30 without voice score 50 with label 0;
\* adding the handwriting symptom gives 55 and label 1, and raising the age
\* to 85 gives 65
C30_Witness ==
    /\ AssessAnswered
    /\ ~req.voice_features.present
    /\ OnlySymptoms(req.clinical_symptoms, {"tremor", "bradykinesia"})
    /\ req.clinical_symptoms.age = 30
    /\ resp.risk_score = 50 * RiskUnit
    /\ resp.prediction = 0
    /\ AssessResponseFor([req.clinical_symptoms EXCEPT !.handwriting = TRUE])
          .prediction = 1
    /\ AssessResponseFor([req.clinical_symptoms EXCEPT !.age = 85])
          .risk_score = 65 * RiskUnit

====
